---- MODULE Spec2Model ----
(***************************************************************************)
(* Model of the control layer of the msc-dissertation repository:          *)
(*   - run_agentic          (src/dissertation/core/orchestrator.py)        *)
(*   - generate_bundle_cached (src/dissertation/core/semantic_cache.py)    *)
(*   - the store adapter    (src/dissertation/core/cache_store.py)         *)
(*                                                                         *)
(* Two specifications share the module:                                    *)
(*   Spec       one run of run_agentic, one action per external step       *)
(*   SpecCache  concurrent generate_bundle_cached requests on one store    *)
(*                                                                         *)
(* Scores are integers in thousandths (4.2 is 4200): every score of the    *)
(* model has at most three decimals, so round(avg_score, 3) keeps it.      *)
(* Similarities and cosine distances are integers in millionths.           *)
(***************************************************************************)
EXTENDS Integers, Sequences, FiniteSets, TLC

\* ------------------------------------------------------------------------
\* Bounds of the model
\* ------------------------------------------------------------------------
MaxIters == 3
MaxForce == 2
\* generate_bundle_cached requests issued by one client
MaxReqs == 2

\* ------------------------------------------------------------------------
\* run_agentic: inputs
\* ------------------------------------------------------------------------
\* target_score values tried (4.2 is the default of the code)
Targets == {4200, 4600}

\* Results of build_quality_reports on a requirement set: (g_ok, t_ok, avg).
\* A bundle always has at least one story (GeneratedBundle / RefinedBundle
\* min_length=1), so avg is within [1, 5].
Outcomes ==
    { [g_ok |-> TRUE,  t_ok |-> TRUE,  avg |-> 3500],
      [g_ok |-> TRUE,  t_ok |-> TRUE,  avg |-> 4000],
      [g_ok |-> TRUE,  t_ok |-> TRUE,  avg |-> 4200],
      [g_ok |-> TRUE,  t_ok |-> TRUE,  avg |-> 4500],
      [g_ok |-> FALSE, t_ok |-> TRUE,  avg |-> 3000],
      [g_ok |-> FALSE, t_ok |-> TRUE,  avg |-> 4500],
      [g_ok |-> TRUE,  t_ok |-> FALSE, avg |-> 3000] }

\* Results of critic_fn: should_iterate and len(edits)
Critiques ==
    { [should_iterate |-> TRUE,  edits |-> 1],
      [should_iterate |-> FALSE, edits |-> 0] }

CacheKinds == {"hash", "semantic_reuse", "semantic_adapt", "miss"}

\* ------------------------------------------------------------------------
\* cache: inputs
\* ------------------------------------------------------------------------
\* concurrent clients of the store
Procs == {1, 2}

\* Epics, each named by its fingerprint: _hash(_normalize(_cache_input(epic)))
\* is taken as injective on normalized texts, and embed_text as a function
\* of the normalized text.
Epics == {1, 2}

\* 1.0 of `similarity = 1.0 - float(dist)`, in millionths
One == 1000000
REUSE_THRESHOLD == 920000
ADAPT_THRESHOLD == 750000

\* cosine distances between the embeddings of two different epics
DistValues == {80000, 80001, 200000, 250000, 250001, 600000}

Pairs == { {a, b} : a \in Epics, b \in Epics } \ { {a} : a \in Epics }

None == [none |-> TRUE]

NoReq == -1
NoCrit == [should_iterate |-> FALSE, edits |-> -1]

VARIABLES
    \* ---- run_agentic ----
    pc,               \* position of the run
    config_ok,        \* OPENAI_API_KEY set and the three agents importable
    run_folder,       \* the run folder and its audit log have been created
    max_iters, target_score, force_min_iters,   \* parameters
    cache_meta,       \* second component of generate_bundle_cached's result
    it,               \* loop variable
    req,              \* current requirement set, named by run_metadata.iteration
    hard_ok, avg_score,
    best_req, best_score,
    crit,             \* last critique
    iteration_rows,   \* list of row dicts
    audit,            \* audit_log.jsonl, one record per line
    scores_csv,       \* iteration_scores.csv as last written (<<>> before)
    ret,              \* requirement set returned to the caller
    exit,             \* which return / raise statement ended the run
    critic_calls, refine_calls,  \* invocations of the two collaborators
    critic_args, refine_args,    \* requirement set handed to each invocation
    cancelled,        \* the cancellation or timeout that fired ("none": none)
    \* ---- store (committed rows) ----
    requirements,     \* table requirements: set of rows
    artifacts,        \* table artifacts: set of rows
    req_seq, art_seq, \* primary-key sequences
    dist,             \* cosine distance of the embeddings of each pair
    min_sim,          \* min_similarity handed to get_cached_by_similarity
    \* ---- generate_bundle_cached, per client ----
    cpc,              \* position of the client's request
    nreq,             \* requests the client has issued
    h,                \* text_hash of the request's epic
    sim_hit,          \* result of get_cached_by_similarity
    similarity,       \* similarity of the closest row (-1: no row)
    decision,         \* cache_hit of the request
    bundle,           \* bundle the request holds / returns
    gen_calls,        \* generate_with_openai calls of the request
    gen_args,         \* arguments of the request's generate_with_openai call
    pending,          \* requirement row flushed but not committed
    error,            \* exception that left the request
    hit_at_start,     \* content stored under h when the request began
    nbr_before,       \* the closest row as read by the similarity lookup
    meta,             \* the metadata dict the request returned
    \* ---- schema-validation retry of one agent call ----
    rpc,              \* position inside the agent function
    agent,            \* generate_with_openai, critique or refine
    max_retries,      \* parameter
    attempt,          \* loop variable
    raw,              \* current raw model output
    raws,             \* every raw output received, in order
    repair_args,      \* (raw, error) handed to each _repair_json call
    model_calls,      \* _call_json_mode invocations
    result,           \* validated output returned to the caller
    rerror,           \* exception that left the function
    \* ---- fingerprint of two epics ----
    fpc,              \* position of the comparison
    e1, e2,           \* the two epics
    rel,              \* how e2 was obtained from e1
    fp1, fp2,         \* their fingerprints
    \* ---- get_engine ----
    db_url,           \* DATABASE_URL is set in the environment
    engine,           \* the module global _engine (0: None)
    engines_created,  \* create_engine calls so far
    ecalls,           \* get_engine calls so far
    eresult,          \* outcome of the last get_engine call
    \* ---- build_quality_reports ----
    qpc,              \* position inside the function
    n_stories,        \* len(req.stories)
    story,            \* the story of the current loop pass, as scored
    overall_scores,   \* list of per-story aggregates
    req_avg,          \* run-level score returned
    \* ---- get_cached_by_similarity called on a given store ----
    looked,           \* the call has been made
    lookup,           \* what it returned
    \* ---- history of a client that issues its requests one after another ----
    gen_total,        \* generate_with_openai calls so far, per fingerprint
    history           \* fingerprint and decision of each returned request

runVars == << pc, config_ok, run_folder, max_iters, target_score, force_min_iters,
              cache_meta, it, req, hard_ok, avg_score, best_req, best_score,
              crit, iteration_rows, audit, scores_csv, ret, exit,
              critic_calls, refine_calls, critic_args, refine_args,
              cancelled >>

storeVars == << requirements, artifacts, req_seq, art_seq, dist, min_sim >>

procVars == << cpc, nreq, h, sim_hit, similarity, decision, bundle,
               gen_calls, gen_args, pending, error, hit_at_start, nbr_before,
               meta >>

cacheVars == << storeVars, procVars >>

retryVars == << rpc, agent, max_retries, attempt, raw, raws, repair_args,
                model_calls, result, rerror >>

fpVars == << fpc, e1, e2, rel, fp1, fp2 >>

engineVars == << db_url, engine, engines_created, ecalls, eresult >>

qualityVars == << qpc, n_stories, story, overall_scores, req_avg >>

lookupVars == << looked, lookup >>

histVars == << gen_total, history >>

pureVars == << retryVars, fpVars, engineVars, qualityVars, lookupVars, histVars >>

vars == << runVars, cacheVars, pureVars >>

\* ------------------------------------------------------------------------
\* run_agentic: helpers
\* ------------------------------------------------------------------------
HardOk_gherkinOnly(o) == o.g_ok

\* hard_ok = g_ok and t_ok  (build_quality_reports)
HardOk(o) == o.g_ok /\ o.t_ok

Row_lagging(k, o, edits) ==
    [iteration |-> IF k > 0 THEN k - 1 ELSE 0, avg_score |-> o.avg,
     hard_ok |-> HardOk(o),
     gherkin_ok |-> o.g_ok, trace_ok |-> o.t_ok, edits_count |-> edits]

\* the row appended to iteration_rows
Row(k, o, edits) ==
    [iteration |-> k, avg_score |-> o.avg, hard_ok |-> HardOk(o),
     gherkin_ok |-> o.g_ok, trace_ok |-> o.t_ok, edits_count |-> edits]

\* audit.log(event, payload): one appended record
AuditRec(event, k) == [event |-> event, iteration |-> k]

StopAtZero_ignoresForce(o) == HardOk(o) /\ o.avg >= target_score

\* early stop after iteration 0
StopAtZero(o) ==
    HardOk(o) /\ o.avg >= target_score /\ force_min_iters <= 0

BestMoves_ignoresScore(o) == HardOk(o)

BestMoves_strict(o) == HardOk(o) /\ o.avg > best_score

\* the pointer moves when the pass is hard_ok and scores >= best_score
BestMoves(o) == HardOk(o) /\ o.avg >= best_score

\* stop inside the loop
TargetMet(o) == HardOk(o) /\ o.avg >= target_score

\* what the except handler returns, given the pointer and the current set
ExceptReturn_current(best, cur) == cur

ExceptReturn(best, cur) == best

ExhaustReturn_current(best, cur) == cur

\* what the statement after the loop returns
ExhaustReturn(best, cur) == best

CriticStopReturn_best(best, cur) == best

\* what `if not crit.should_iterate` returns
CriticStopReturn(best, cur) == cur

ReqPassed_best(best, cur) == best

\* the requirement set handed to critic_fn(epic, req) and to
\* refiner_fn(epic, req, crit)
ReqPassed(best, cur) == cur

\* return value r, after write_iteration_scores(run_folder, rows)
Return(r, rows, how) ==
    /\ scores_csv' = rows
    /\ ret' = r
    /\ exit' = how
    /\ pc' = "returned"

LoopTo_skipCritique(k, rows, best, cur) ==
    IF k <= max_iters
    THEN /\ it' = k
         /\ pc' = "refine"
         /\ UNCHANGED << scores_csv, ret, exit >>
    ELSE /\ it' = it
         /\ Return(ExhaustReturn(best, cur), rows, "exhausted")

LoopTo_onePassMore(k, rows, best, cur) ==
    IF k <= max_iters + 1
    THEN /\ it' = k
         /\ pc' = "critique"
         /\ UNCHANGED << scores_csv, ret, exit >>
    ELSE /\ it' = it
         /\ Return(ExhaustReturn(best, cur), rows, "exhausted")

\* for it in range(1, max_iters + 1): enter pass k, or leave the loop
LoopTo(k, rows, best, cur) ==
    IF k <= max_iters
    THEN /\ it' = k
         /\ pc' = "critique"
         /\ UNCHANGED << scores_csv, ret, exit >>
    ELSE /\ it' = it
         /\ Return(ExhaustReturn(best, cur), rows, "exhausted")

Except_silent(cur) ==
    /\ audit' = audit
    /\ Return(ExceptReturn(best_req, cur), iteration_rows, "exception")

Except_reraise(cur) ==
    /\ audit' = Append(audit, AuditRec("error", it))
    /\ scores_csv' = iteration_rows
    /\ ret' = ret
    /\ exit' = "exception"
    /\ pc' = "raised"

\* except Exception as e: log, write the table, return best_req
Except(cur) ==
    /\ audit' = Append(audit, AuditRec("error", it))
    /\ Return(ExceptReturn(best_req, cur), iteration_rows, "exception")

\* the exceptions that leave generate_bundle_cached
GenerateErrors ==
    {"ValidationError", "APIError", "IntegrityError", "OperationalError"}

\* get_cached_by_similarity has not been called on its own
LookupQuiet ==
    /\ looked = FALSE
    /\ lookup = None

\* no generate_with_openai call has been counted
HistQuiet ==
    /\ gen_total = [e \in Epics |-> 0]
    /\ history = << >>

\* the cache is not in use: empty store, no request
CacheQuiet ==
    /\ requirements = {}
    /\ artifacts = {}
    /\ req_seq = 0
    /\ art_seq = 0
    /\ dist = [pr \in Pairs |-> 600000]
    /\ min_sim = ADAPT_THRESHOLD
    /\ cpc = [p \in Procs |-> "idle"]
    /\ nreq = [p \in Procs |-> 0]
    /\ h = [p \in Procs |-> 0]
    /\ sim_hit = [p \in Procs |-> None]
    /\ similarity = [p \in Procs |-> -1]
    /\ decision = [p \in Procs |-> "none"]
    /\ bundle = [p \in Procs |-> None]
    /\ gen_calls = [p \in Procs |-> 0]
    /\ gen_args = [p \in Procs |-> None]
    /\ pending = [p \in Procs |-> None]
    /\ error = [p \in Procs |-> "none"]
    /\ hit_at_start = [p \in Procs |-> None]
    /\ nbr_before = [p \in Procs |-> None]
    /\ meta = [p \in Procs |-> None]

\* no raw output yet / nothing returned
NoRaw == [kind |-> "none", call |-> 0]

\* no agent call is being followed
RetryQuiet ==
    /\ rpc = "off"
    /\ agent = "none"
    /\ max_retries = 0
    /\ attempt = 0
    /\ raw = NoRaw
    /\ raws = << >>
    /\ repair_args = << >>
    /\ model_calls = 0
    /\ result = NoRaw
    /\ rerror = "none"

\* no story has been scored
NoStory ==
    [flags |-> [depends |-> FALSE, implementation |-> FALSE,
                no_benefit |-> FALSE, vague |-> FALSE, has_and |-> FALSE,
                untestable |-> FALSE],
     hard |-> -1, ambiguous |-> -1]

\* build_quality_reports is not being called
QualityQuiet ==
    /\ qpc = "off"
    /\ n_stories = 0
    /\ story = NoStory
    /\ overall_scores = << >>
    /\ req_avg = 0

\* no get_engine call has returned yet
NoResult == [raised |-> FALSE, engine |-> 0]

\* get_engine is not being called
EngineQuiet ==
    /\ db_url = TRUE
    /\ engine = 0
    /\ engines_created = 0
    /\ ecalls = 0
    /\ eresult = NoResult

\* no epic, no fingerprint computed
NoEpic == [epic_id |-> << >>, text |-> << >>, constraints |-> << >>,
           glossary |-> << >>]

NoHash == [sha256 |-> "none"]

\* no fingerprint is being computed
FpQuiet ==
    /\ fpc = "off"
    /\ e1 = NoEpic
    /\ e2 = NoEpic
    /\ rel = "none"
    /\ fp1 = NoHash
    /\ fp2 = NoHash

\* ------------------------------------------------------------------------
\* run_agentic: initial state and actions
\* ------------------------------------------------------------------------
RunInit ==
    /\ pc = "config"
    /\ config_ok \in BOOLEAN
    /\ run_folder = FALSE
    /\ max_iters \in 0..MaxIters
    /\ target_score \in Targets
    /\ force_min_iters \in 0..MaxForce
    /\ cache_meta = "none"
    /\ it = 0
    /\ req = NoReq
    /\ hard_ok = FALSE
    /\ avg_score = 0
    /\ best_req = NoReq
    /\ best_score = 0
    /\ crit = NoCrit
    /\ iteration_rows = << >>
    /\ audit = << >>
    /\ scores_csv = << >>
    /\ ret = NoReq
    /\ exit = "none"
    /\ critic_calls = 0
    /\ refine_calls = 0
    /\ critic_args = << >>
    /\ refine_args = << >>
    /\ cancelled = "none"

Init ==
    /\ RunInit
    /\ CacheQuiet
    /\ RetryQuiet
    /\ FpQuiet
    /\ EngineQuiet
    /\ QualityQuiet
    /\ LookupQuiet
    /\ HistQuiet

FolderCreated_beforeGuard(ok) == TRUE

\* get_run_folder and AuditLogger.create follow the guard
FolderCreated(ok) == ok

\* the configuration guard at the head of run_agentic, then the creation of
\* the run folder and of the audit log
ConfigCheck ==
    /\ pc = "config"
    /\ IF config_ok
       THEN pc' = "generate" /\ exit' = exit
       ELSE pc' = "raised" /\ exit' = "config_error"
    /\ run_folder' = FolderCreated(config_ok)
    /\ UNCHANGED << critic_args, refine_args, cancelled, config_ok, max_iters, target_score, force_min_iters,
                    cache_meta, it, req, hard_ok, avg_score, best_req,
                    best_score, crit, iteration_rows, audit, scores_csv, ret,
                    critic_calls, refine_calls >>

\* bundle, cache_meta = generate_bundle_cached(epic)
Generate ==
    /\ pc = "generate"
    /\ \E k \in CacheKinds : cache_meta' = k
    /\ pc' = "score0"
    /\ UNCHANGED << critic_args, refine_args, cancelled, config_ok, run_folder, max_iters, target_score, force_min_iters,
                    it, req, hard_ok, avg_score, best_req, best_score, crit,
                    iteration_rows, audit, scores_csv, ret, exit,
                    critic_calls, refine_calls >>

\* generate_bundle_cached raises, whatever the exception is (the generator's
\* ValidationError after its repairs, the embedding call's error, the
\* store's IntegrityError or OperationalError): the call is outside the try,
\* the run fails with that exception
GenerateRaise ==
    /\ pc = "generate"
    /\ pc' = "raised"
    /\ \E e \in GenerateErrors : exit' = e
    /\ UNCHANGED << critic_args, refine_args, cancelled, config_ok, run_folder, max_iters, target_score, force_min_iters,
                    cache_meta, it, req, hard_ok, avg_score, best_req,
                    best_score, crit, iteration_rows, audit, scores_csv, ret,
                    critic_calls, refine_calls >>

\* iteration 0: _make_req, build_quality_reports, audit record, row,
\* best_req / best_score, early stop or entry into the loop
Score0 ==
    /\ pc = "score0"
    /\ \E o \in Outcomes :
         LET rows == Append(iteration_rows, Row(0, o, 0)) IN
         /\ req' = 0
         /\ hard_ok' = HardOk(o)
         /\ avg_score' = o.avg
         /\ audit' = Append(audit, AuditRec("iteration_result", 0))
         /\ iteration_rows' = rows
         /\ best_req' = 0
         /\ best_score' = o.avg
         /\ IF StopAtZero(o)
            THEN it' = it /\ Return(0, rows, "converged0")
            ELSE LoopTo(1, rows, 0, 0)
    /\ UNCHANGED << critic_args, refine_args, cancelled, config_ok, run_folder, max_iters, target_score, force_min_iters,
                    cache_meta, crit, critic_calls, refine_calls >>

\* crit = critic_fn(epic, req); audit record; stop when not should_iterate
Critique ==
    /\ pc = "critique"
    /\ critic_calls' = critic_calls + 1
    /\ \E c \in Critiques :
         /\ crit' = c
         /\ audit' = Append(audit, AuditRec("critique", it))
         /\ IF ~ c.should_iterate
            THEN Return(CriticStopReturn(best_req, req), iteration_rows,
                        "critic_stop")
            ELSE pc' = "refine" /\ UNCHANGED << scores_csv, ret, exit >>
    /\ critic_args' = Append(critic_args, ReqPassed(best_req, req))
    /\ UNCHANGED << refine_args, cancelled, config_ok, run_folder, max_iters, target_score, force_min_iters,
                    cache_meta, it, req, hard_ok, avg_score, best_req,
                    best_score, iteration_rows, refine_calls >>

\* critic_fn raises
CritiqueRaise ==
    /\ pc = "critique"
    /\ critic_calls' = critic_calls + 1
    /\ Except(req)
    /\ critic_args' = Append(critic_args, ReqPassed(best_req, req))
    /\ UNCHANGED << refine_args, cancelled, config_ok, run_folder, max_iters, target_score, force_min_iters,
                    cache_meta, it, req, hard_ok, avg_score, best_req,
                    best_score, crit, iteration_rows, refine_calls >>

\* refined = refiner_fn(epic, req, crit)
Refine ==
    /\ pc = "refine"
    /\ refine_calls' = refine_calls + 1
    /\ pc' = "score"
    /\ refine_args' = Append(refine_args, ReqPassed(best_req, req))
    /\ UNCHANGED << critic_args, cancelled, config_ok, run_folder, max_iters, target_score, force_min_iters,
                    cache_meta, it, req, hard_ok, avg_score, best_req,
                    best_score, crit, iteration_rows, audit, scores_csv, ret,
                    exit, critic_calls >>

\* refiner_fn raises
RefineRaise ==
    /\ pc = "refine"
    /\ refine_calls' = refine_calls + 1
    /\ Except(req)
    /\ refine_args' = Append(refine_args, ReqPassed(best_req, req))
    /\ UNCHANGED << critic_args, cancelled, config_ok, run_folder, max_iters, target_score, force_min_iters,
                    cache_meta, it, req, hard_ok, avg_score, best_req,
                    best_score, crit, iteration_rows, critic_calls >>

\* pass it: _make_req, build_quality_reports, audit record, row, pointer
\* update, stop on target or next pass
Score ==
    /\ pc = "score"
    /\ \E o \in Outcomes :
         LET rows == Append(iteration_rows, Row(it, o, crit.edits))
             moves == BestMoves(o)
             best == IF moves THEN it ELSE best_req
         IN
         /\ req' = it
         /\ hard_ok' = HardOk(o)
         /\ avg_score' = o.avg
         /\ audit' = Append(audit, AuditRec("iteration_result", it))
         /\ iteration_rows' = rows
         /\ best_req' = best
         /\ best_score' = IF moves THEN o.avg ELSE best_score
         /\ IF TargetMet(o)
            THEN it' = it /\ Return(it, rows, "converged")
            ELSE LoopTo(it + 1, rows, best, it)
    /\ UNCHANGED << critic_args, refine_args, cancelled, config_ok, run_folder, max_iters, target_score, force_min_iters,
                    cache_meta, crit, critic_calls, refine_calls >>

\* scoring raises: inside _make_req (req still the previous set) or in the
\* build_quality_reports call that follows it (req already reassigned)
ScoreRaise ==
    /\ pc = "score"
    /\ \E r \in {req, it} : req' = r /\ Except(r)
    /\ UNCHANGED << critic_args, refine_args, cancelled, config_ok, run_folder, max_iters, target_score, force_min_iters,
                    cache_meta, it, hard_ok, avg_score, best_req,
                    best_score, crit, iteration_rows, critic_calls,
                    refine_calls >>

Next ==
    \/ (ConfigCheck /\ UNCHANGED << cacheVars, pureVars >>)
    \/ (Generate /\ UNCHANGED << cacheVars, pureVars >>)
    \/ (GenerateRaise /\ UNCHANGED << cacheVars, pureVars >>)
    \/ (Score0 /\ UNCHANGED << cacheVars, pureVars >>)
    \/ (Critique /\ UNCHANGED << cacheVars, pureVars >>)
    \/ (CritiqueRaise /\ UNCHANGED << cacheVars, pureVars >>)
    \/ (Refine /\ UNCHANGED << cacheVars, pureVars >>)
    \/ (RefineRaise /\ UNCHANGED << cacheVars, pureVars >>)
    \/ (Score /\ UNCHANGED << cacheVars, pureVars >>)
    \/ (ScoreRaise /\ UNCHANGED << cacheVars, pureVars >>)

Spec == Init /\ [][Next]_vars

\* the run is one thread of control: a step that can be taken is taken
SpecFair == Init /\ [][Next]_vars /\ WF_vars(Next)

\* ------------------------------------------------------------------------
\* store adapter and cache policy
\* ------------------------------------------------------------------------
\* RequirementRow.embedding.cosine_distance(query)
CosineDistance(a, b) == IF a = b THEN 0 ELSE dist[{a, b}]

\* rows of `requirements` with the given text_hash
ReqsByHash(x) == { r \in requirements : r.text_hash = x }

\* rows of `artifacts` of a requirement
ArtsOf(id) == { a \in artifacts : a.requirement_id = id }

CachedByHash_unjoined(x) ==
    IF ReqsByHash(x) = {} THEN {} ELSE { a.content_json : a \in artifacts }

\* get_cached_by_hash: the contents it may return; empty when it returns None
\* (s.scalar takes the first row of the result)
CachedByHash(x) ==
    { a.content_json : a \in UNION { ArtsOf(r.id) : r \in ReqsByHash(x) } }

\* contents of the artifacts stored under a hash
StoredUnder(x) ==
    { a.content_json : a \in { b \in artifacts :
        \E r \in requirements : r.text_hash = x /\ b.requirement_id = r.id } }

Eligible_unjoined ==
    { [art |-> a, rq |-> r] : a \in artifacts, r \in requirements } \cap
    { j \in [art : artifacts, rq : requirements] :
        /\ j.rq.embedding # 0
        /\ j.art.output_type = "bundle" }

\* the join of get_cached_by_similarity: artifact x requirement, embedding
\* not null, output_type = "bundle"
Eligible ==
    { [art |-> a, rq |-> r] : a \in artifacts, r \in requirements } \cap
    { j \in [art : artifacts, rq : requirements] :
        /\ j.rq.id = j.art.requirement_id
        /\ j.rq.embedding # 0
        /\ j.art.output_type = "bundle" }

\* ORDER BY dist LIMIT 1: the rows that can come first
Closest(e) ==
    { j \in Eligible :
        \A k \in Eligible :
            CosineDistance(j.rq.embedding, e) <= CosineDistance(k.rq.embedding, e) }

\* similarity = 1.0 - float(dist)
SimilarityOf(j, e) == One - CosineDistance(j.rq.embedding, e)

\* get_cached_by_similarity drops the row when similarity < min_similarity
BelowMin(sim, min_similarity) == sim < min_similarity

\* if sim >= REUSE_THRESHOLD
InReuseBand(sim) == sim >= REUSE_THRESHOLD

InAdaptBand_noLower(sim) == sim < REUSE_THRESHOLD

InAdaptBand_exclusive(sim) == ADAPT_THRESHOLD < sim /\ sim < REUSE_THRESHOLD

\* if ADAPT_THRESHOLD <= sim < REUSE_THRESHOLD
InAdaptBand(sim) == ADAPT_THRESHOLD <= sim /\ sim < REUSE_THRESHOLD

\* if sim < ADAPT_THRESHOLD: sim_hit = None
Guardrail(hit) ==
    IF hit = None THEN None
    ELSE IF hit.sim < ADAPT_THRESHOLD THEN None ELSE hit

\* the decision of generate_bundle_cached once the hash lookup missed
Policy(hit) ==
    IF hit = None THEN "miss"
    ELSE IF InReuseBand(hit.sim) THEN "semantic_reuse"
    ELSE IF InAdaptBand(hit.sim) THEN "semantic_adapt"
    ELSE "miss"

UniqueViolation_off(x) == FALSE

\* text_hash is declared unique=True: an INSERT of a hash that a committed
\* row carries fails
UniqueViolation(x) == ReqsByHash(x) # {}

StoreKey_source(p) ==
    IF sim_hit[p] = None THEN h[p]
    ELSE (CHOOSE r \in requirements : r.id = sim_hit[p].source).text_hash

\* the hash store_bundle is called with
StoreKey(p) == h[p]

\* bundle.model_dump(): the dict written to content_json
ModelDump(b) == [stories_scenarios_trace_map |-> b]

\* GeneratedBundle.model_validate(cached): the bundle read back from a dict
ModelValidate(d) == d.stories_scenarios_trace_map

POLICY_VERSION == "cache_policy_v1"

CacheMetadata_keepNone(p) ==
    IF decision[p] = "semantic_adapt"
    THEN [cache_hit |-> "semantic_adapt", similarity |-> sim_hit[p].sim,
          source_requirement_id |-> sim_hit[p].source,
          policy_version |-> POLICY_VERSION]
    ELSE [cache_hit |-> "miss", similarity |-> -1, source_requirement_id |-> -1,
          policy_version |-> POLICY_VERSION]

\* cache_metadata of store_bundle, None values dropped
CacheMetadata(p) ==
    IF decision[p] = "semantic_adapt"
    THEN [cache_hit |-> "semantic_adapt", similarity |-> sim_hit[p].sim,
          source_requirement_id |-> sim_hit[p].source,
          policy_version |-> POLICY_VERSION]
    ELSE [cache_hit |-> "miss", policy_version |-> POLICY_VERSION]

Meta_bare(kind, sim, source) ==
    [cache_hit |-> kind, policy_version |-> POLICY_VERSION]

\* the meta dict of a return statement of generate_bundle_cached: similarity
\* and source_requirement_id are keys of the two semantic ones only
Meta(kind, sim, source) ==
    IF kind \in {"semantic_reuse", "semantic_adapt"}
    THEN [cache_hit |-> kind, similarity |-> sim,
          source_requirement_id |-> source, policy_version |-> POLICY_VERSION]
    ELSE [cache_hit |-> kind, policy_version |-> POLICY_VERSION]

\* the meta returned after store_bundle: line 116 on adapt, line 144 on miss
ReturnMeta(p) ==
    IF decision[p] = "semantic_adapt"
    THEN Meta("semantic_adapt", sim_hit[p].sim, sim_hit[p].source)
    ELSE Meta("miss", -1, -1)

NeedsArtifact_always(r) == TRUE

\* if not existing_art
NeedsArtifact(r) == ArtsOf(r.id) = {}

\* ArtifactRow(...) of store_bundle
NewArtifact(p, rid) ==
    [id |-> art_seq + 1, requirement_id |-> rid, output_type |-> "bundle",
     content_json |-> ModelDump(bundle[p]),
     prompt_version |-> IF decision[p] = "semantic_adapt" THEN "v1_adapt" ELSE "v1",
     metadata_json |-> CacheMetadata(p)]

CommitArtifacts_none(p) == {}

\* the artifact row added to the session before s.commit()
CommitArtifacts(p) == { NewArtifact(p, pending[p].id) }

\* ------------------------------------------------------------------------
\* cache: initial state and actions
\* ------------------------------------------------------------------------
RunQuiet ==
    /\ pc = "off"
    /\ config_ok = TRUE
    /\ run_folder = FALSE
    /\ max_iters = 0
    /\ target_score = 4200
    /\ force_min_iters = 0
    /\ cache_meta = "none"
    /\ it = 0
    /\ req = NoReq
    /\ hard_ok = FALSE
    /\ avg_score = 0
    /\ best_req = NoReq
    /\ best_score = 0
    /\ crit = NoCrit
    /\ iteration_rows = << >>
    /\ audit = << >>
    /\ scores_csv = << >>
    /\ ret = NoReq
    /\ exit = "none"
    /\ critic_calls = 0
    /\ refine_calls = 0
    /\ critic_args = << >>
    /\ refine_args = << >>
    /\ cancelled = "none"

InitCache ==
    /\ RunQuiet
    /\ RetryQuiet
    /\ FpQuiet
    /\ EngineQuiet
    /\ QualityQuiet
    /\ LookupQuiet
    /\ HistQuiet
    /\ requirements = {}
    /\ artifacts = {}
    /\ req_seq = 0
    /\ art_seq = 0
    /\ dist \in [Pairs -> DistValues]
    /\ min_sim = ADAPT_THRESHOLD
    /\ cpc = [p \in Procs |-> "idle"]
    /\ nreq = [p \in Procs |-> 0]
    /\ h = [p \in Procs |-> 0]
    /\ sim_hit = [p \in Procs |-> None]
    /\ similarity = [p \in Procs |-> -1]
    /\ decision = [p \in Procs |-> "none"]
    /\ bundle = [p \in Procs |-> None]
    /\ gen_calls = [p \in Procs |-> 0]
    /\ gen_args = [p \in Procs |-> None]
    /\ pending = [p \in Procs |-> None]
    /\ error = [p \in Procs |-> "none"]
    /\ hit_at_start = [p \in Procs |-> None]
    /\ nbr_before = [p \in Procs |-> None]
    /\ meta = [p \in Procs |-> None]

\* a client calls generate_bundle_cached(epic): raw, norm, h are computed
Start(p) ==
    /\ cpc[p] \in {"idle", "done", "raised"}
    /\ nreq[p] < MaxReqs
    /\ \E e \in Epics :
         /\ h' = [h EXCEPT ![p] = e]
         /\ hit_at_start' = [hit_at_start EXCEPT ![p] =
               IF StoredUnder(e) = {} THEN None
               ELSE [content |-> CHOOSE c \in StoredUnder(e) : TRUE]]
    /\ nreq' = [nreq EXCEPT ![p] = @ + 1]
    /\ cpc' = [cpc EXCEPT ![p] = "hash_lookup"]
    /\ sim_hit' = [sim_hit EXCEPT ![p] = None]
    /\ similarity' = [similarity EXCEPT ![p] = -1]
    /\ decision' = [decision EXCEPT ![p] = "none"]
    /\ bundle' = [bundle EXCEPT ![p] = None]
    /\ gen_calls' = [gen_calls EXCEPT ![p] = 0]
    /\ gen_args' = [gen_args EXCEPT ![p] = None]
    /\ error' = [error EXCEPT ![p] = "none"]
    /\ nbr_before' = [nbr_before EXCEPT ![p] = None]
    /\ meta' = [meta EXCEPT ![p] = None]
    /\ UNCHANGED << storeVars, pending >>

\* 1) exact hit: cached = get_cached_by_hash(h); if cached: return it
HashLookup(p) ==
    /\ cpc[p] = "hash_lookup"
    /\ IF CachedByHash(h[p]) # {}
       THEN \E c \in CachedByHash(h[p]) :
              /\ bundle' = [bundle EXCEPT ![p] = ModelValidate(c)]
              /\ decision' = [decision EXCEPT ![p] = "hash"]
              /\ meta' = [meta EXCEPT ![p] = Meta("hash", -1, -1)]
              /\ cpc' = [cpc EXCEPT ![p] = "done"]
       ELSE /\ cpc' = [cpc EXCEPT ![p] = "sim_lookup"]
            /\ UNCHANGED << bundle, decision, meta >>
    /\ UNCHANGED << storeVars, nreq, h, sim_hit, similarity, gen_calls, gen_args,
                    pending, error, hit_at_start, nbr_before >>

StoreError_retry(p, e) ==
    /\ error' = [error EXCEPT ![p] = e]
    /\ cpc' = [cpc EXCEPT ![p] = cpc[p]]

\* an exception of the store or of the embedding call is caught nowhere in
\* generate_bundle_cached: it leaves the function
StoreError(p, e) ==
    /\ error' = [error EXCEPT ![p] = e]
    /\ cpc' = [cpc EXCEPT ![p] = "raised"]

\* get_cached_by_hash raises (get_engine without DATABASE_URL, lost
\* connection)
HashLookupFails(p) ==
    /\ cpc[p] = "hash_lookup"
    /\ StoreError(p, "OperationalError")
    /\ UNCHANGED << storeVars, nreq, h, sim_hit, similarity, decision,
                    bundle, gen_calls, gen_args, pending, hit_at_start, nbr_before, meta >>

\* embed_text raises, or get_cached_by_similarity does
SimLookupFails(p) ==
    /\ cpc[p] = "sim_lookup"
    /\ \E e \in {"APIError", "OperationalError"} : StoreError(p, e)
    /\ UNCHANGED << storeVars, nreq, h, sim_hit, similarity, decision,
                    bundle, gen_calls, gen_args, pending, hit_at_start, nbr_before, meta >>

\* 2) emb = embed_text(norm); sim_hit = get_cached_by_similarity(emb,
\* min_similarity=ADAPT_THRESHOLD); then the policy bands
SimLookup(p) ==
    /\ cpc[p] = "sim_lookup"
    /\ IF Closest(h[p]) = {}
       THEN /\ sim_hit' = [sim_hit EXCEPT ![p] = None]
            /\ similarity' = [similarity EXCEPT ![p] = -1]
            /\ decision' = [decision EXCEPT ![p] = Policy(None)]
            /\ cpc' = [cpc EXCEPT ![p] = "generate"]
            /\ UNCHANGED << bundle, nbr_before, meta >>
       ELSE \E j \in Closest(h[p]) :
              LET sim == SimilarityOf(j, h[p])
                  hit == IF BelowMin(sim, min_sim) THEN None
                         ELSE [bundle |-> j.art.content_json, sim |-> sim,
                               source |-> j.rq.id]
              IN
              /\ sim_hit' = [sim_hit EXCEPT ![p] = Guardrail(hit)]
              /\ nbr_before' = [nbr_before EXCEPT ![p] = j]
              /\ similarity' = [similarity EXCEPT ![p] = sim]
              /\ decision' = [decision EXCEPT ![p] = Policy(hit)]
              /\ IF Policy(hit) = "semantic_reuse"
                 THEN /\ bundle' = [bundle EXCEPT ![p] = ModelValidate(hit.bundle)]
                      /\ meta' = [meta EXCEPT ![p] =
                            Meta("semantic_reuse", hit.sim, hit.source)]
                      /\ cpc' = [cpc EXCEPT ![p] = "done"]
                 ELSE /\ cpc' = [cpc EXCEPT ![p] = "generate"]
                      /\ UNCHANGED << bundle, meta >>
    /\ UNCHANGED << storeVars, nreq, h, gen_calls, gen_args, pending, error,
                    hit_at_start >>

GenArgs_fresh(p) == [mode |-> "fresh", draft |-> None, similarity |-> -1]

\* the keyword arguments of the generate_with_openai call: none on a miss
\* (mode "fresh", no draft), the neighbour's content and similarity on adapt
GenArgs(p) ==
    IF decision[p] = "semantic_adapt"
    THEN [mode |-> "semantic_adapt", draft |-> sim_hit[p].bundle,
          similarity |-> sim_hit[p].sim]
    ELSE [mode |-> "fresh", draft |-> None, similarity |-> -1]

\* generate_with_openai(epic) or generate_with_openai(epic, draft_bundle=...,
\* mode="semantic_adapt", similarity=sim) returns a validated bundle
GenerateBundle(p) ==
    /\ cpc[p] = "generate"
    /\ bundle' = [bundle EXCEPT ![p] = [by |-> p, n |-> nreq[p]]]
    /\ gen_calls' = [gen_calls EXCEPT ![p] = @ + 1]
    /\ gen_args' = [gen_args EXCEPT ![p] = GenArgs(p)]
    /\ cpc' = [cpc EXCEPT ![p] = "store_select"]
    /\ UNCHANGED << storeVars, nreq, h, sim_hit, similarity, decision,
                    pending, error, hit_at_start, nbr_before, meta >>

GenerateFails_storesFirst(p) ==
    /\ cpc[p] = "generate"
    /\ gen_calls' = [gen_calls EXCEPT ![p] = @ + 1]
    /\ gen_args' = [gen_args EXCEPT ![p] = GenArgs(p)]
    /\ error' = [error EXCEPT ![p] = "ValidationError"]
    /\ cpc' = [cpc EXCEPT ![p] = "raised"]
    /\ requirements' = requirements \cup
          { [id |-> req_seq + 1, text_hash |-> h[p], embedding |-> h[p]] }
    /\ req_seq' = req_seq + 1
    /\ UNCHANGED << artifacts, art_seq, dist, min_sim, nreq, h, sim_hit,
                    similarity, decision,
                    bundle, pending, hit_at_start, nbr_before, meta >>

\* generate_with_openai raises once its repair retries are used up
GenerateFails(p) ==
    /\ cpc[p] = "generate"
    /\ gen_calls' = [gen_calls EXCEPT ![p] = @ + 1]
    /\ gen_args' = [gen_args EXCEPT ![p] = GenArgs(p)]
    /\ error' = [error EXCEPT ![p] = "ValidationError"]
    /\ cpc' = [cpc EXCEPT ![p] = "raised"]
    /\ UNCHANGED << storeVars, nreq, h, sim_hit, similarity, decision,
                    bundle, pending, hit_at_start, nbr_before, meta >>

\* store_bundle, first statement: existing_req = SELECT ... WHERE text_hash;
\* when a row exists, attach an artifact if it has none, and return
StoreSelect(p) ==
    /\ cpc[p] = "store_select"
    /\ IF ReqsByHash(StoreKey(p)) # {}
       THEN \E r \in ReqsByHash(StoreKey(p)) :
              /\ IF NeedsArtifact(r)
                 THEN /\ artifacts' = artifacts \cup {NewArtifact(p, r.id)}
                      /\ art_seq' = art_seq + 1
                 ELSE UNCHANGED << artifacts, art_seq >>
              /\ meta' = [meta EXCEPT ![p] = ReturnMeta(p)]
              /\ cpc' = [cpc EXCEPT ![p] = "done"]
       ELSE /\ cpc' = [cpc EXCEPT ![p] = "store_flush"]
            /\ UNCHANGED << artifacts, art_seq, meta >>
    /\ UNCHANGED << requirements, req_seq, dist, min_sim, nreq, h, sim_hit,
                    similarity, decision, bundle, gen_calls, gen_args, pending, error,
                    hit_at_start, nbr_before >>

\* store_bundle: s.add(req); s.flush().  The INSERT waits while another
\* open transaction holds an uncommitted row of the same hash, and fails
\* with IntegrityError when a committed row carries the hash.
StoreFlush(p) ==
    /\ cpc[p] = "store_flush"
    /\ \A q \in Procs \ {p} :
         IF pending[q] = None THEN TRUE
         ELSE pending[q].text_hash # StoreKey(p)
    /\ req_seq' = req_seq + 1
    /\ IF UniqueViolation(StoreKey(p))
       THEN /\ error' = [error EXCEPT ![p] = "IntegrityError"]
            /\ cpc' = [cpc EXCEPT ![p] = "raised"]
            /\ UNCHANGED pending
       ELSE /\ pending' = [pending EXCEPT ![p] =
                 [id |-> req_seq + 1, text_hash |-> StoreKey(p),
                  embedding |-> h[p]]]
            /\ cpc' = [cpc EXCEPT ![p] = "store_commit"]
            /\ UNCHANGED error
    /\ UNCHANGED << requirements, artifacts, art_seq, dist, min_sim, nreq, h,
                    sim_hit,
                    similarity, decision, bundle, gen_calls, gen_args, hit_at_start,
                    nbr_before, meta >>

\* store_bundle: s.add(art); s.commit() -- both rows become visible at once
StoreCommit(p) ==
    /\ cpc[p] = "store_commit"
    /\ requirements' = requirements \cup {pending[p]}
    /\ artifacts' = artifacts \cup CommitArtifacts(p)
    /\ art_seq' = art_seq + 1
    /\ pending' = [pending EXCEPT ![p] = None]
    /\ meta' = [meta EXCEPT ![p] = ReturnMeta(p)]
    /\ cpc' = [cpc EXCEPT ![p] = "done"]
    /\ UNCHANGED << req_seq, dist, min_sim, nreq, h, sim_hit, similarity,
                    decision,
                    bundle, gen_calls, gen_args, error, hit_at_start, nbr_before >>

\* store_bundle fails between flush and commit (lost connection, failed
\* INSERT of the artifact): the session is closed and the transaction
\* rolled back, the flushed requirement row is discarded
StoreAbort(p) ==
    /\ cpc[p] = "store_commit"
    /\ pending' = [pending EXCEPT ![p] = None]
    /\ StoreError(p, "OperationalError")
    /\ UNCHANGED << storeVars, nreq, h, sim_hit, similarity, decision,
                    bundle, gen_calls, gen_args, hit_at_start, nbr_before, meta >>

NextCache ==
    \/ \E p \in Procs : Start(p) /\ UNCHANGED << runVars, pureVars >>
    \/ \E p \in Procs : HashLookup(p) /\ UNCHANGED << runVars, pureVars >>
    \/ \E p \in Procs : SimLookup(p) /\ UNCHANGED << runVars, pureVars >>
    \/ \E p \in Procs : GenerateBundle(p) /\ UNCHANGED << runVars, pureVars >>
    \/ \E p \in Procs : GenerateFails(p) /\ UNCHANGED << runVars, pureVars >>
    \/ \E p \in Procs : StoreSelect(p) /\ UNCHANGED << runVars, pureVars >>
    \/ \E p \in Procs : StoreFlush(p) /\ UNCHANGED << runVars, pureVars >>
    \/ \E p \in Procs : StoreCommit(p) /\ UNCHANGED << runVars, pureVars >>
    \/ \E p \in Procs : StoreAbort(p) /\ UNCHANGED << runVars, pureVars >>
    \/ \E p \in Procs : HashLookupFails(p) /\ UNCHANGED << runVars, pureVars >>
    \/ \E p \in Procs : SimLookupFails(p) /\ UNCHANGED << runVars, pureVars >>

SpecCache == InitCache /\ [][NextCache]_vars

\* min_similarity values other than ADAPT_THRESHOLD: none, and the default
\* of get_cached_by_similarity
LooseMins == {0, 600000}

\* the store seen through a similarity lookup that does not apply the
\* policy threshold
InitCacheLoose ==
    /\ RunQuiet
    /\ RetryQuiet
    /\ FpQuiet
    /\ EngineQuiet
    /\ QualityQuiet
    /\ LookupQuiet
    /\ HistQuiet
    /\ requirements = {}
    /\ artifacts = {}
    /\ req_seq = 0
    /\ art_seq = 0
    /\ dist \in [Pairs -> DistValues]
    /\ min_sim \in LooseMins
    /\ cpc = [p \in Procs |-> "idle"]
    /\ nreq = [p \in Procs |-> 0]
    /\ h = [p \in Procs |-> 0]
    /\ sim_hit = [p \in Procs |-> None]
    /\ similarity = [p \in Procs |-> -1]
    /\ decision = [p \in Procs |-> "none"]
    /\ bundle = [p \in Procs |-> None]
    /\ gen_calls = [p \in Procs |-> 0]
    /\ gen_args = [p \in Procs |-> None]
    /\ pending = [p \in Procs |-> None]
    /\ error = [p \in Procs |-> "none"]
    /\ hit_at_start = [p \in Procs |-> None]
    /\ nbr_before = [p \in Procs |-> None]
    /\ meta = [p \in Procs |-> None]

SpecCacheLoose == InitCacheLoose /\ [][NextCache]_vars

\* ------------------------------------------------------------------------
\* Properties of run_agentic
\* ------------------------------------------------------------------------
\* the row of iteration k
RowOf(k) == iteration_rows[k + 1]

\* iterations scored so far
ScoredIters == { i - 1 : i \in DOMAIN iteration_rows }

\* scored iterations that satisfied hard constraints
SatisfyingIters == { k \in ScoredIters : RowOf(k).hard_ok }

\* C1: if any iteration scored during the run satisfied hard constraints,
\* the returned requirement set is one that satisfied hard constraints,
\* whichever exit is taken.
C1_ReturnSatisfiesHard ==
    (pc = "returned" /\ SatisfyingIters # {}) => ret \in SatisfyingIters

\* C2: once iteration 0 is scored and some scored iteration satisfies hard
\* constraints, (best_req, best_score) is the highest-scoring satisfying one.
C2_BestIsHighestSatisfying ==
    (iteration_rows # << >> /\ SatisfyingIters # {}) =>
        /\ best_req \in SatisfyingIters
        /\ best_score = RowOf(best_req).avg_score
        /\ \A k \in SatisfyingIters : RowOf(k).avg_score <= best_score

\* C3: an exception of critique, refine or scoring in pass k is not
\* propagated; the run returns the Best-Result Pointer's set, which is never
\* the set of the failed pass k.
C3_ExceptionReturnsBest ==
    (exit = "exception") =>
        /\ pc = "returned"
        /\ ret = best_req
        /\ ret \in ScoredIters
        /\ ret < it

\* C3 witness: scoring failed in pass 2 after req was reassigned, while the
\* pointer stayed on an earlier iteration.
C3_Witness ==
    /\ exit = "exception"
    /\ it = 2
    /\ req = it
    /\ ret < it

\* the run started from an iteration 0 that met target and hard constraints
ZeroMetTarget ==
    /\ iteration_rows # << >>
    /\ RowOf(0).hard_ok
    /\ RowOf(0).avg_score >= target_score

\* C8: with force_min_iters = 1 and iteration 0 meeting target and hard
\* constraints, the run performs one complete critique / refine / re-score
\* pass before it returns.
C8_ForcedPassPerformed ==
    (pc = "returned" /\ force_min_iters = 1 /\ ZeroMetTarget) =>
        /\ critic_calls >= 1
        /\ refine_calls >= 1
        /\ Len(iteration_rows) >= 2

\* C9: the run does not stop as converged on score before force_min_iters
\* critique/refine passes were performed.
C9_FloorOnPasses ==
    (exit \in {"converged0", "converged"}) =>
        Len(iteration_rows) - 1 >= force_min_iters

\* ------------------------------------------------------------------------
\* Properties of the cache
\* ------------------------------------------------------------------------
\* the request of p got past its hash lookup without a hit
PastSimLookup(p) == decision[p] \in {"semantic_reuse", "semantic_adapt", "miss"}

\* C4: on an exact-hash miss the decision follows the closest neighbour's
\* similarity s: s >= 0.92 reuse, 0.75 <= s < 0.92 adapt, s < 0.75 or no
\* eligible neighbour miss.
C4_ThresholdBands ==
    \A p \in Procs :
        PastSimLookup(p) =>
            decision[p] =
                IF similarity[p] >= 920000 THEN "semantic_reuse"
                ELSE IF similarity[p] >= 750000 THEN "semantic_adapt"
                ELSE "miss"

\* C4 witness: a neighbour at exactly 0.75 was adapted and the request ended.
C4_Witness ==
    \E p \in Procs :
        /\ cpc[p] = "done"
        /\ similarity[p] = 750000
        /\ decision[p] = "semantic_adapt"

\* C5: a request that starts when a bundle B is stored under its fingerprint
\* makes no generative call, never reaches the similarity lookup, and
\* returns B with cache_hit = "hash"; the only other way it ends is the
\* database error of the hash lookup itself (C28), which returns nothing.
C5_ExactCacheIdempotent ==
    \A p \in Procs :
        (hit_at_start[p] # None /\ cpc[p] \notin {"idle", "hash_lookup"}) =>
            /\ gen_calls[p] = 0
            /\ cpc[p] \in {"done", "raised"}
            /\ cpc[p] = "raised" => error[p] = "OperationalError"
            /\ cpc[p] = "done" =>
                  /\ decision[p] = "hash"
                  /\ ModelDump(bundle[p]) = hit_at_start[p].content

\* C5 witness: a hash hit on a bundle that the other client generated, while
\* the store holds a second fingerprint as well.
C5_Witness ==
    \E p \in Procs :
        /\ cpc[p] = "done"
        /\ decision[p] = "hash"
        /\ hit_at_start[p] # None
        /\ bundle[p].by # p
        /\ Cardinality(requirements) = 2

\* C6: a duplicate-hash constraint violation is never surfaced to the caller
\* of store_bundle / generate_bundle_cached.
C6_ConflictNeverSurfaced ==
    \A p \in Procs : error[p] # "IntegrityError"

\* C7: at most one Requirement Record per fingerprint hash and at most one
\* bundle Artifact per Requirement Record.
C7_NoDuplicates ==
    /\ \A r1 \in requirements : \A r2 \in requirements :
         r1.text_hash = r2.text_hash => r1 = r2
    /\ \A r \in requirements :
         Cardinality({ a \in ArtsOf(r.id) : a.output_type = "bundle" }) <= 1

\* C7 witness: two writers raced on one hash; one committed, the other's
\* INSERT was rejected.
C7_Witness ==
    \E p \in Procs : \E q \in Procs \ {p} :
        /\ h[p] = h[q]
        /\ error[p] = "IntegrityError"
        /\ cpc[q] = "done"
        /\ decision[q] \in {"miss", "semantic_adapt"}
        /\ ReqsByHash(h[p]) # {}

\* the neighbour's rows are what the similarity lookup read
NeighbourUntouched(p) ==
    /\ { r \in requirements : r.id = sim_hit[p].source } = { nbr_before[p].rq }
    /\ ArtsOf(sim_hit[p].source) = { nbr_before[p].art }
    /\ nbr_before[p].art.content_json = sim_hit[p].bundle

\* the request of p returned with decision semantic_adapt
AdaptReturned(p) == cpc[p] = "done" /\ decision[p] = "semantic_adapt"

C11_ReuseVerbatimNoWrite ==
    [][ \A p \in Procs :
          (cpc[p] = "sim_lookup" /\ decision'[p] = "semantic_reuse") =>
              /\ cpc'[p] = "done"
              /\ gen_calls'[p] = 0
              /\ pending'[p] = None
              /\ requirements' = requirements
              /\ artifacts' = artifacts
              /\ \E r \in requirements :
                   /\ r.id = sim_hit'[p].source
                   /\ ModelDump(bundle'[p]) \in StoredUnder(r.text_hash) ]_vars

\* C11 witness: a request ended by reusing the bundle of another epic at
\* similarity 0.92, with nothing stored under its own fingerprint.
C11_Witness ==
    \E p \in Procs :
        /\ cpc[p] = "done"
        /\ decision[p] = "semantic_reuse"
        /\ similarity[p] = 920000
        /\ StoredUnder(h[p]) = {}
        /\ bundle[p].by # p

\* the similarity lookup handed back a row below ADAPT_THRESHOLD
OutOfBandHit(p) ==
    /\ similarity[p] # -1
    /\ similarity[p] >= min_sim
    /\ similarity[p] < 750000

\* C12: a hit whose similarity lies below every band is treated as a miss:
\* a fresh bundle is generated and stored, and the only errors that can end
\* the request are those of the generator and of the store.
C12_OutOfBandIsMiss ==
    \A p \in Procs :
        OutOfBandHit(p) =>
            /\ decision[p] = "miss"
            /\ sim_hit[p] = None
            /\ cpc[p] \in {"generate", "store_select", "store_flush",
                           "store_commit", "done", "raised"}
            /\ cpc[p] = "raised" =>
                 error[p] \in {"ValidationError", "IntegrityError",
                               "OperationalError"}
            /\ cpc[p] = "done" =>
                 /\ gen_calls[p] = 1
                 /\ bundle[p] = [by |-> p, n |-> nreq[p]]
                 /\ StoredUnder(h[p]) # {}
                 /\ \A a \in artifacts :
                      a.content_json = ModelDump(bundle[p]) =>
                          a.metadata_json = [cache_hit |-> "miss",
                                             policy_version |-> POLICY_VERSION]

\* C12 witness: a lookup with the adapter's default threshold 0.60 returned
\* a neighbour at 0.749999; the request generated and stored a fresh bundle.
C12_Witness ==
    \E p \in Procs :
        /\ min_sim = 600000
        /\ similarity[p] = 749999
        /\ cpc[p] = "done"
        /\ decision[p] = "miss"
        /\ ModelDump(bundle[p]) \in StoredUnder(h[p])

\* C13: in every state of the committed tables a Requirement Record has its
\* bundle Artifact and every Artifact has its Requirement Record, also after
\* a store_bundle call failed part-way.
C13_PairAtomic ==
    /\ \A r \in requirements :
         \E a \in artifacts : a.requirement_id = r.id /\ a.output_type = "bundle"
    /\ \A a \in artifacts :
         \E r \in requirements : a.requirement_id = r.id

\* C13 witness: a store_bundle call failed between flush and commit and left
\* no row for its hash, next to a committed pair of the other epic.
C13_Witness ==
    \E p \in Procs :
        /\ error[p] = "OperationalError"
        /\ gen_calls[p] = 1
        /\ ReqsByHash(h[p]) = {}
        /\ Cardinality(requirements) = 1
        /\ Cardinality(artifacts) = 1

\* C14: a store_bundle call for a hash whose Requirement Record already has
\* a bundle Artifact changes no row and adds none.
C14_FirstWriteWins ==
    [][ \A p \in Procs :
          ( /\ cpc[p] \in {"store_select", "store_flush"}
            /\ StoredUnder(StoreKey(p)) # {}
            /\ cpc'[p] # cpc[p] ) =>
              /\ requirements' = requirements
              /\ artifacts' = artifacts
              /\ cpc'[p] \in {"done", "raised"} ]_vars

\* C14 witness: a store_bundle call returned without writing because the
\* other client had stored the fingerprint.
C14_Witness ==
    \E p \in Procs :
        /\ cpc[p] = "done"
        /\ decision[p] \in {"miss", "semantic_adapt"}
        /\ StoredUnder(h[p]) # {}
        /\ ModelDump(bundle[p]) \notin StoredUnder(h[p])

\* the critique collaborator raised in the current pass: the run left by
\* the handler before any critique record of this pass was logged
CritiqueRaised ==
    /\ exit = "exception"
    /\ \A i \in DOMAIN audit : audit[i] # AuditRec("critique", it)

\* C15: when the critique collaborator raises in loop pass k, the audit
\* trail ends with an error record for k, holds no iteration_result record
\* for k, and the score table holds exactly the rows of iterations 0..k-1.
C15_CritiqueRaiseTrail ==
    CritiqueRaised =>
        /\ it >= 1
        /\ audit # << >>
        /\ audit[Len(audit)] = AuditRec("error", it)
        /\ \A i \in DOMAIN audit : audit[i] # AuditRec("iteration_result", it)
        /\ Len(scores_csv) = it
        /\ \A i \in DOMAIN scores_csv : scores_csv[i].iteration = i - 1

\* C15 witness: critique raises in pass 2 of a run with max_iters = 3 whose
\* pass 1 met the hard constraints at 4.0; the pass-1 set is returned.
C15_Witness ==
    /\ CritiqueRaised
    /\ max_iters = 3
    /\ it = 2
    /\ Len(scores_csv) = 2
    /\ scores_csv[2].hard_ok
    /\ scores_csv[2].avg_score = 4000
    /\ ret = 1

\* C16: every run ends, and critique and refine are each invoked at most
\* max_iters times (not at all when max_iters = 0).
C16_TerminatesBounded ==
    /\ [](critic_calls <= max_iters /\ refine_calls <= max_iters)
    /\ <>(pc \in {"returned", "raised"})

\* C16 witness: a run that used up all its passes, with max_iters calls of
\* each collaborator.
C16_Witness ==
    /\ pc = "returned"
    /\ exit = "exhausted"
    /\ max_iters >= 3
    /\ critic_calls = max_iters
    /\ refine_calls = max_iters

MaxRetries == 2

\* the three functions share the loop
Agents == {"generate_with_openai", "critique", "refine"}

\* what the model may answer: text that parses and validates, text that is
\* not JSON, JSON that the pydantic schema rejects
RawKinds == {"valid", "bad_json", "bad_schema"}

\* json.loads(raw) followed by model_validate(data): the exception raised
ValidationErrorOf(r) ==
    IF r.kind = "bad_json" THEN "JSONDecodeError"
    ELSE IF r.kind = "bad_schema" THEN "ValidationError"
    ELSE "none"

Exhausted_late(a) == a > max_retries

\* if attempt >= max_retries: raise
Exhausted(a) == a >= max_retries

InitRetry ==
    /\ RunQuiet
    /\ CacheQuiet
    /\ FpQuiet
    /\ EngineQuiet
    /\ QualityQuiet
    /\ LookupQuiet
    /\ HistQuiet
    /\ rpc = "call"
    /\ agent \in Agents
    /\ max_retries \in 0..MaxRetries
    /\ attempt = 0
    /\ raw = NoRaw
    /\ raws = << >>
    /\ repair_args = << >>
    /\ model_calls = 0
    /\ result = NoRaw
    /\ rerror = "none"

\* raw = _call_json_mode(messages, model=model)
CallModel ==
    /\ rpc = "call"
    /\ \E k \in RawKinds :
         LET r == [kind |-> k, call |-> model_calls + 1] IN
         /\ raw' = r
         /\ raws' = Append(raws, r)
    /\ model_calls' = model_calls + 1
    /\ rpc' = "validate"
    /\ UNCHANGED << agent, max_retries, attempt, repair_args, result, rerror >>

\* the initial model call fails (network, API): the error leaves the function
CallModelFails ==
    /\ rpc = "call"
    /\ model_calls' = model_calls + 1
    /\ rerror' = "APIError"
    /\ rpc' = "raised"
    /\ UNCHANGED << agent, max_retries, attempt, raw, raws, repair_args,
                    result >>

\* the body of the for loop: parse and validate; return, raise or go on to
\* the repair call
Validate ==
    /\ rpc = "validate"
    /\ LET err == ValidationErrorOf(raw) IN
       IF err = "none"
       THEN /\ result' = raw
            /\ rpc' = "returned"
            /\ rerror' = rerror
       ELSE IF Exhausted(attempt)
       THEN /\ rerror' = err
            /\ rpc' = "raised"
            /\ result' = result
       ELSE /\ rpc' = "repair"
            /\ UNCHANGED << result, rerror >>
    /\ UNCHANGED << agent, max_retries, attempt, raw, raws, repair_args,
                    model_calls >>

\* raw = _repair_json(raw, str(e), model); the loop goes to the next attempt
Repair ==
    /\ rpc = "repair"
    /\ repair_args' = Append(repair_args,
                             [raw |-> raw, error |-> ValidationErrorOf(raw)])
    /\ \E k \in RawKinds :
         LET r == [kind |-> k, call |-> model_calls + 1] IN
         /\ raw' = r
         /\ raws' = Append(raws, r)
    /\ model_calls' = model_calls + 1
    /\ attempt' = attempt + 1
    /\ rpc' = "validate"
    /\ UNCHANGED << agent, max_retries, result, rerror >>

\* the model call inside _repair_json fails
RepairFails ==
    /\ rpc = "repair"
    /\ repair_args' = Append(repair_args,
                             [raw |-> raw, error |-> ValidationErrorOf(raw)])
    /\ model_calls' = model_calls + 1
    /\ rerror' = "APIError"
    /\ rpc' = "raised"
    /\ UNCHANGED << agent, max_retries, attempt, raw, raws, result >>

NextRetry ==
    \/ (CallModel /\ UNCHANGED << runVars, cacheVars, fpVars, engineVars, qualityVars, lookupVars, histVars >>)
    \/ (CallModelFails /\ UNCHANGED << runVars, cacheVars, fpVars, engineVars, qualityVars, lookupVars, histVars >>)
    \/ (Validate /\ UNCHANGED << runVars, cacheVars, fpVars, engineVars, qualityVars, lookupVars, histVars >>)
    \/ (Repair /\ UNCHANGED << runVars, cacheVars, fpVars, engineVars, qualityVars, lookupVars, histVars >>)
    \/ (RepairFails /\ UNCHANGED << runVars, cacheVars, fpVars, engineVars, qualityVars, lookupVars, histVars >>)

SpecRetry == InitRetry /\ [][NextRetry]_vars

\* C17: one initial model call and at most max_retries repair calls, each
\* given the previous raw output and its validation error; only validated
\* output is returned; with the repairs used up the validation error is
\* raised instead.
C17_BoundedRepair ==
    /\ Len(repair_args) <= max_retries
    /\ model_calls <= 1 + max_retries
    /\ \A i \in DOMAIN repair_args :
         /\ repair_args[i].raw = raws[i]
         /\ repair_args[i].error = ValidationErrorOf(raws[i])
         /\ repair_args[i].error # "none"
    /\ rpc = "returned" =>
         /\ ValidationErrorOf(result) = "none"
         /\ result = raws[Len(raws)]
         /\ model_calls = 1 + Len(repair_args)
         /\ rerror = "none"
    /\ (rpc = "raised" /\ rerror # "APIError") =>
         /\ Len(repair_args) = max_retries
         /\ model_calls = 1 + max_retries
         /\ rerror = ValidationErrorOf(raws[Len(raws)])
         /\ rerror \in {"JSONDecodeError", "ValidationError"}
         /\ result = NoRaw

\* C17 witness: generate_with_openai with max_retries = 2 got three outputs
\* the schema rejects and raised the last validation error.
C17_Witness ==
    /\ rpc = "raised"
    /\ agent = "generate_with_openai"
    /\ max_retries = 2
    /\ Len(repair_args) = 2
    /\ rerror = "ValidationError"

\* ------------------------------------------------------------------------
\* fingerprint: _cache_input, _normalize, _hash
\* ------------------------------------------------------------------------
\* strings are sequences of characters; the words of the template are
\* single characters of the alphabet
MaxItems == 2

\* constraint strings: two that differ in case only, a third one, and one
\* that holds the item marker
ConstraintStrings ==
    { << "a" >>, << "A" >>, << "b" >>, << "a", " ", "-", " ", "a" >> }

\* glossary entries: the same term without and with a trailing blank
GlossaryEntries ==
    [term : { << "a" >>, << "a", " " >> }, definition : { << "b" >> }]

EpicIds == { << "a" >> }

EpicTexts == { << "b" >>, << "b", " " >> }

\* lists of at most MaxItems elements of S
Lists(S) == UNION { [1..n -> S] : n \in 0..MaxItems }

EpicInputs ==
    [epic_id : EpicIds, text : EpicTexts,
     constraints : Lists(ConstraintStrings),
     glossary : Lists(GlossaryEntries)]

\* "\n".join(lines)
RECURSIVE JoinLines(_)
JoinLines(ls) ==
    IF ls = << >> THEN << >>
    ELSE IF Len(ls) = 1 THEN ls[1]
    ELSE ls[1] \o << "\n" >> \o JoinLines(Tail(ls))

\* f"- {c}"
ConstraintLine(c) == << "-", " " >> \o c

\* f"- {g.term}: {g.definition}"
GlossaryLine(g) == << "-", " " >> \o g.term \o << ":", " " >> \o g.definition

\* <joined> or "(none)"
OrNone(t) == IF t = << >> THEN << "(none)" >> ELSE t

\* _cache_input(epic)
CacheInput(e) ==
    LET glossary ==
            OrNone(JoinLines([i \in DOMAIN e.glossary |->
                                 GlossaryLine(e.glossary[i])]))
        constraints ==
            OrNone(JoinLines([i \in DOMAIN e.constraints |->
                                 ConstraintLine(e.constraints[i])]))
    IN  << "Epic", " ", "ID:", " " >> \o e.epic_id \o << "\n", "\n" >>
        \o e.text \o << "\n", "\n", "Constraints:", "\n" >> \o constraints
        \o << "\n", "\n", "Glossary:", "\n" >> \o glossary

\* \s of the regular expression, str.strip
IsSpace(c) == c \in {" ", "\n"}

RECURSIVE StripLeft(_)
StripLeft(t) ==
    IF t = << >> THEN t
    ELSE IF IsSpace(Head(t)) THEN StripLeft(Tail(t)) ELSE t

RECURSIVE StripRight(_)
StripRight(t) ==
    IF t = << >> THEN t
    ELSE IF IsSpace(t[Len(t)]) THEN StripRight(SubSeq(t, 1, Len(t) - 1))
    ELSE t

\* s.strip()
Strip(t) == StripRight(StripLeft(t))

LowerChar(c) ==
    CASE c = "A" -> "a"
      [] c = "B" -> "b"
      [] c = "Epic" -> "epic"
      [] c = "ID:" -> "id:"
      [] c = "Constraints:" -> "constraints:"
      [] c = "Glossary:" -> "glossary:"
      [] OTHER -> c

\* s.lower()
Lower(t) == [i \in DOMAIN t |-> LowerChar(t[i])]

\* re.sub(r"\s+", " ", s)
RECURSIVE CollapseSpaces(_)
CollapseSpaces(t) ==
    IF t = << >> THEN << >>
    ELSE IF IsSpace(Head(t)) THEN << " " >> \o CollapseSpaces(StripLeft(t))
    ELSE << Head(t) >> \o CollapseSpaces(Tail(t))

\* _normalize(s)
Normalize(t) == CollapseSpaces(Lower(Strip(t)))

Hash_lengthOnly(t) == [sha256 |-> Len(t)]

\* _hash(s): sha256 of the text, taken as collision-free
Hash(t) == [sha256 |-> t]

\* h = _hash(_normalize(_cache_input(epic)))
Fingerprint(e) == Hash(Normalize(CacheInput(e)))

\* the lists obtained from l by a permutation that changes it
Reorderings(l) ==
    { [i \in DOMAIN l |-> l[f[i]]] : f \in Permutations(DOMAIN l) } \ {l}

\* field-wise equality after trimming and case-folding (ASCII: lower)
Fold(t) == Lower(Strip(t))

FieldwiseEqual(x, y) ==
    /\ Fold(x.epic_id) = Fold(y.epic_id)
    /\ Fold(x.text) = Fold(y.text)
    /\ Len(x.constraints) = Len(y.constraints)
    /\ \A i \in DOMAIN x.constraints :
         Fold(x.constraints[i]) = Fold(y.constraints[i])
    /\ Len(x.glossary) = Len(y.glossary)
    /\ \A i \in DOMAIN x.glossary :
         /\ Fold(x.glossary[i].term) = Fold(y.glossary[i].term)
         /\ Fold(x.glossary[i].definition) = Fold(y.glossary[i].definition)

InitFp ==
    /\ RunQuiet
    /\ CacheQuiet
    /\ RetryQuiet
    /\ EngineQuiet
    /\ QualityQuiet
    /\ LookupQuiet
    /\ HistQuiet
    /\ fpc = "input"
    /\ e1 \in EpicInputs
    /\ e2 = NoEpic
    /\ rel = "none"
    /\ fp1 = NoHash
    /\ fp2 = NoHash

\* both fingerprints are computed
Compare(other, how) ==
    /\ e2' = other
    /\ rel' = how
    /\ fp1' = Fingerprint(e1)
    /\ fp2' = Fingerprint(other)
    /\ fpc' = "done"
    /\ e1' = e1

\* the same epic is fingerprinted a second time
FingerprintAgain ==
    /\ fpc = "input"
    /\ Compare(e1, "same")

\* the second epic is the first with its constraints reordered
ReorderConstraints ==
    /\ fpc = "input"
    /\ \E l \in Reorderings(e1.constraints) :
         Compare([e1 EXCEPT !.constraints = l], "reorder_constraints")

\* the second epic is the first with its glossary reordered
ReorderGlossary ==
    /\ fpc = "input"
    /\ \E l \in Reorderings(e1.glossary) :
         Compare([e1 EXCEPT !.glossary = l], "reorder_glossary")

\* the second epic equals the first field by field after trim and fold
FieldwiseVariant ==
    /\ fpc = "input"
    /\ \E v \in EpicInputs :
         /\ FieldwiseEqual(e1, v)
         /\ Compare(v, "fieldwise_equal")

NextFp ==
    \/ (FingerprintAgain /\ UNCHANGED << runVars, cacheVars, retryVars, engineVars, qualityVars, lookupVars, histVars >>)
    \/ (ReorderConstraints /\ UNCHANGED << runVars, cacheVars, retryVars, engineVars, qualityVars, lookupVars, histVars >>)
    \/ (ReorderGlossary /\ UNCHANGED << runVars, cacheVars, retryVars, engineVars, qualityVars, lookupVars, histVars >>)
    \/ (FieldwiseVariant /\ UNCHANGED << runVars, cacheVars, retryVars, engineVars, qualityVars, lookupVars, histVars >>)

SpecFp == InitFp /\ [][NextFp]_vars

\* the reordered list of each epic, item by item as it reads after
\* normalization
ItemText(e, i) ==
    IF rel = "reorder_constraints"
    THEN e.constraints[i]
    ELSE e.glossary[i].term \o << ":", " " >> \o e.glossary[i].definition

ReorderedIndex ==
    IF rel = "reorder_constraints" THEN DOMAIN e1.constraints
    ELSE DOMAIN e1.glossary

Reordered == fpc = "done" /\ rel \in {"reorder_constraints", "reorder_glossary"}

\* C19 (as stated): an epic obtained by reordering the constraint strings or
\* the glossary entries of another has a different fingerprint.
C19_ReorderChangesFingerprint ==
    Reordered => fp1 # fp2

\* C19 (amended): the fingerprint of an epic is the same on every
\* computation; a reordering of items that differ pairwise after
\* normalization and hold no item marker changes it; a reordering that
\* leaves every position equal after normalization keeps it.
C19_OrderSensitiveUpToNormalization ==
    /\ (fpc = "done" /\ rel = "same") => fp1 = fp2
    /\ Reordered =>
         /\ ( /\ \A i, j \in ReorderedIndex :
                   i # j => Normalize(ItemText(e1, i)) # Normalize(ItemText(e1, j))
              /\ \A i \in ReorderedIndex :
                   \A k \in DOMAIN ItemText(e1, i) : ItemText(e1, i)[k] # "-" )
            => fp1 # fp2
         /\ ( \A i \in ReorderedIndex :
                 Normalize(ItemText(e1, i)) = Normalize(ItemText(e2, i)) )
            => fp1 = fp2

\* C19 witness: constraints "a", "b" were swapped and the fingerprint changed.
C19_Witness ==
    /\ Reordered
    /\ e1.constraints = << << "a" >>, << "b" >> >>
    /\ e2.constraints = << << "b" >>, << "a" >> >>
    /\ fp1 # fp2

\* C20: two epics that are field-wise equal after trimming and case-folding
\* have the same normalized cache string, hence the same fingerprint.
C20_FieldwiseEqualSameFingerprint ==
    (fpc = "done" /\ rel = "fieldwise_equal") => fp1 = fp2

\* ------------------------------------------------------------------------
\* run_agentic: stops, pointer and order of the steps
\* ------------------------------------------------------------------------
\* C23: when the critic answers should_iterate = false in pass k the run
\* ends at once: refine is not called in pass k, the set returned is the
\* most recently scored one, the critique record is the last of the audit
\* trail and the score table has been written.
C23_CriticStopReturnsCurrent ==
    exit = "critic_stop" =>
        /\ pc = "returned"
        /\ ~ crit.should_iterate
        /\ ret = Len(iteration_rows) - 1
        /\ ret = it - 1
        /\ critic_calls = it
        /\ refine_calls = it - 1
        /\ audit[Len(audit)] = AuditRec("critique", it)
        /\ scores_csv = iteration_rows

\* C23 witness: the critic stopped pass 2 while the pointer was on
\* iteration 0; the set of pass 1 is returned.
C23_Witness ==
    /\ exit = "critic_stop"
    /\ it = 2
    /\ ret = 1
    /\ best_req = 0

\* C24: a run whose loop performed all max_iters passes returns the set the
\* Best-Result Pointer refers to, not the set of the last pass.
C24_ExhaustedReturnsBest ==
    exit = "exhausted" =>
        /\ pc = "returned"
        /\ Len(iteration_rows) = max_iters + 1
        /\ \A k \in ScoredIters \ {0} :
             ~ (RowOf(k).hard_ok /\ RowOf(k).avg_score >= target_score)
        /\ ret = best_req
        /\ ret \in ScoredIters
        /\ scores_csv = iteration_rows

\* C24 witness: three passes, none met the target, and the pointer stayed
\* on an earlier iteration than the last.
C24_Witness ==
    /\ exit = "exhausted"
    /\ max_iters = 3
    /\ req = 3
    /\ ret = 1

\* a loop pass has been scored in this step
PassScored == pc = "score" /\ Len(iteration_rows') = Len(iteration_rows) + 1

\* C25: after iteration 0 the pointer changes only in a pass that meets the
\* hard constraints with avg_score >= best_score, and such a pass always
\* takes it (a tie moves it to the later iteration); every other step
\* leaves best_req and best_score as they are.
C25_PointerFrame ==
    [][ /\ ( /\ pc # "score0"
             /\ << best_req, best_score >>' # << best_req, best_score >> ) =>
               /\ PassScored
               /\ hard_ok'
               /\ avg_score' >= best_score
        /\ ( PassScored /\ hard_ok' /\ avg_score' >= best_score ) =>
               /\ best_req' = it
               /\ best_score' = avg_score'
        /\ ( PassScored /\ ~ (hard_ok' /\ avg_score' >= best_score) ) =>
               /\ best_req' = best_req
               /\ best_score' = best_score ]_vars

\* C25 witness: pass 2 tied the score of pass 1 and took the pointer.
C25_Witness ==
    /\ Len(iteration_rows) >= 3
    /\ RowOf(1).hard_ok
    /\ RowOf(2).hard_ok
    /\ RowOf(1).avg_score > RowOf(0).avg_score
    /\ RowOf(2).avg_score = RowOf(1).avg_score
    /\ best_req = 2

\* C26: with force_min_iters <= 0, an iteration 0 that meets the hard
\* constraints and the target ends the run with the iteration-0 set, no
\* critique, no refine and exactly one iteration_result record; the run
\* ends that way in no other case.
C26_EarlyStopAtZero ==
    /\ ( /\ Len(iteration_rows) >= 1
         /\ force_min_iters <= 0
         /\ RowOf(0).hard_ok
         /\ RowOf(0).avg_score >= target_score ) =>
           /\ pc = "returned"
           /\ exit = "converged0"
           /\ ret = 0
           /\ critic_calls = 0
           /\ refine_calls = 0
           /\ audit = << AuditRec("iteration_result", 0) >>
           /\ scores_csv = iteration_rows
    /\ exit = "converged0" =>
           /\ force_min_iters <= 0
           /\ RowOf(0).hard_ok
           /\ RowOf(0).avg_score >= target_score

\* C26 witness: iteration 0 scored exactly the target.
C26_Witness ==
    /\ exit = "converged0"
    /\ max_iters >= 1
    /\ RowOf(0).avg_score = target_score

\* C27: the steps of a run are strictly ordered: generation, scoring, then
\* per pass critique, refine, scoring. Refine runs only after the critique
\* of its own pass asked to iterate, and a critique runs only when the
\* previous result has been scored.
C27_StepsOrdered ==
    [][ /\ cache_meta' # cache_meta =>
               /\ pc = "generate"
               /\ iteration_rows = << >>
               /\ critic_calls = 0
               /\ refine_calls = 0
        /\ Len(iteration_rows') # Len(iteration_rows) =>
               \/ pc = "score0" /\ cache_meta # "none" /\ critic_calls = 0
               \/ pc = "score" /\ critic_calls = it /\ refine_calls = it
        /\ critic_calls' # critic_calls =>
               /\ pc = "critique"
               /\ Len(iteration_rows) = it
               /\ req = it - 1
               /\ critic_calls = it - 1
               /\ refine_calls = it - 1
        /\ refine_calls' # refine_calls =>
               /\ pc = "refine"
               /\ crit.should_iterate
               /\ audit[Len(audit)] = AuditRec("critique", it)
               /\ critic_calls = it
               /\ refine_calls = it - 1
               /\ Len(iteration_rows) = it ]_vars

\* C27 witness: the second pass is about to be scored after two critiques
\* and two refinements.
C27_Witness ==
    /\ pc = "score"
    /\ it = 2
    /\ critic_calls = 2
    /\ refine_calls = 2
    /\ Len(iteration_rows) = 2

\* ------------------------------------------------------------------------
\* generate_bundle_cached: races and failures
\* ------------------------------------------------------------------------
\* C22: a request that returns with decision miss or semantic_adapt returns
\* the bundle stored under its fingerprint (the loser of a write race reads
\* back the winner's artifact).
C22_LoserReadsBack ==
    \A p \in Procs :
        (cpc[p] = "done" /\ decision[p] \in {"miss", "semantic_adapt"}) =>
            ModelDump(bundle[p]) \in StoredUnder(h[p])

\* the exceptions of the store and of the embedding call
StoreErrors == {"OperationalError", "IntegrityError", "APIError"}

\* C28: an error of the store or of the embedding call is not retried: the
\* step that fails ends the request as raised, with nothing written and no
\* generative call, and a raised request takes no further step (the client's
\* next step is a new request).
C28_StoreErrorsPropagate ==
    [][ \A p \in Procs :
          /\ ( error'[p] # error[p] /\ error'[p] \in StoreErrors ) =>
                 /\ cpc'[p] = "raised"
                 /\ pending'[p] = None
                 /\ requirements' = requirements
                 /\ artifacts' = artifacts
                 /\ gen_calls'[p] = gen_calls[p]
          /\ ( cpc[p] = "raised" /\ error[p] \in StoreErrors ) =>
                 \/ nreq'[p] = nreq[p] + 1
                 \/ /\ cpc'[p] = "raised"
                    /\ error'[p] = error[p]
                    /\ gen_calls'[p] = gen_calls[p]
                    /\ bundle'[p] = bundle[p] ]_vars

\* C28 witness: the three kinds of failure have each ended a request: the
\* embedding call, and the store before and after generation.
C28_Witness ==
    \E p, q \in Procs :
        /\ cpc[p] = "raised" /\ error[p] = "APIError" /\ gen_calls[p] = 0
        /\ cpc[q] = "raised" /\ error[q] = "OperationalError"
        /\ gen_calls[q] = 1

\* ------------------------------------------------------------------------
\* configuration: get_engine and the guard of run_agentic
\* ------------------------------------------------------------------------
MaxEngineCalls == 3

InitConfig ==
    /\ RunInit
    /\ CacheQuiet
    /\ RetryQuiet
    /\ FpQuiet
    /\ QualityQuiet
    /\ LookupQuiet
    /\ HistQuiet
    /\ db_url \in BOOLEAN
    /\ engine = 0
    /\ engines_created = 0
    /\ ecalls = 0
    /\ eresult = NoResult

\* get_engine(): the cached engine if there is one, else RuntimeError when
\* DATABASE_URL is unset, else create_engine and keep its result
GetEngine ==
    /\ ecalls < MaxEngineCalls
    /\ ecalls' = ecalls + 1
    /\ IF engine # 0
       THEN /\ eresult' = [raised |-> FALSE, engine |-> engine]
            /\ UNCHANGED << engine, engines_created >>
       ELSE IF ~ db_url
       THEN /\ eresult' = [raised |-> TRUE, engine |-> 0]
            /\ UNCHANGED << engine, engines_created >>
       ELSE /\ engines_created' = engines_created + 1
            /\ engine' = engines_created + 1
            /\ eresult' = [raised |-> FALSE, engine |-> engines_created + 1]
    /\ UNCHANGED db_url

\* the environment of the process changes: DATABASE_URL is exported
SetUrl ==
    /\ ~ db_url
    /\ db_url' = TRUE
    /\ UNCHANGED << engine, engines_created, ecalls, eresult >>

\* DATABASE_URL is removed from the environment
UnsetUrl ==
    /\ db_url
    /\ db_url' = FALSE
    /\ UNCHANGED << engine, engines_created, ecalls, eresult >>

NextConfig ==
    \/ (ConfigCheck /\ UNCHANGED << cacheVars, pureVars >>)
    \/ (GetEngine /\ UNCHANGED << runVars, cacheVars, retryVars, fpVars, qualityVars, lookupVars, histVars >>)
    \/ (SetUrl /\ UNCHANGED << runVars, cacheVars, retryVars, fpVars, qualityVars, lookupVars, histVars >>)
    \/ (UnsetUrl /\ UNCHANGED << runVars, cacheVars, retryVars, fpVars, qualityVars, lookupVars, histVars >>)

SpecConfig == InitConfig /\ [][NextConfig]_vars

\* run_agentic without OPENAI_API_KEY or without an agent raises at its
\* guard, with no run folder, no audit record, no access to the store and
\* no collaborator call
GuardSurfaces ==
    /\ (pc = "config" /\ pc' # pc /\ ~ config_ok) => pc' = "raised"
    /\ (pc = "config" /\ pc' = "raised") =>
          /\ ~ config_ok
          /\ exit' = "config_error"
          /\ run_folder' = FALSE
          /\ audit' = << >>
          /\ scores_csv' = << >>
          /\ cache_meta' = "none"
          /\ critic_calls' = 0
          /\ refine_calls' = 0
          /\ ecalls' = ecalls
          /\ UNCHANGED cacheVars

\* C29 (as stated): get_engine raises on every call while DATABASE_URL is
\* unset and caches the engine once created; run_agentic raises on missing
\* configuration before it creates or touches anything.
C29_MissingConfigSurfaced ==
    [][ /\ GuardSurfaces
        /\ (ecalls' = ecalls + 1 /\ ~ db_url) => eresult'.raised
        /\ (ecalls' = ecalls + 1 /\ engine # 0) =>
              /\ engine' = engine
              /\ engines_created' = engines_created ]_vars

\* C29 (amended): get_engine raises on every call made while DATABASE_URL
\* is unset and no engine has been created; a call with DATABASE_URL set
\* creates the engine once; every later call returns that engine, whatever
\* the environment is by then. run_agentic raises on missing configuration
\* before it creates or touches anything.
C29_MissingConfigSurfacedUnlessCached ==
    [][ /\ GuardSurfaces
        /\ (ecalls' = ecalls + 1 /\ engine = 0 /\ ~ db_url) =>
              /\ eresult'.raised
              /\ engine' = 0
              /\ engines_created' = engines_created
        /\ (ecalls' = ecalls + 1 /\ engine = 0 /\ db_url) =>
              /\ ~ eresult'.raised
              /\ engine' # 0
              /\ eresult'.engine = engine'
              /\ engines_created' = engines_created + 1
        /\ (ecalls' = ecalls + 1 /\ engine # 0) =>
              /\ ~ eresult'.raised
              /\ eresult'.engine = engine
              /\ engine' = engine
              /\ engines_created' = engines_created ]_vars

\* C29 witness: get_engine has raised on each of two calls without
\* DATABASE_URL, and the run stopped at its guard.
C29_Witness ==
    /\ pc = "raised"
    /\ exit = "config_error"
    /\ ~ db_url
    /\ ecalls = 2
    /\ eresult.raised
    /\ engine = 0
    /\ engines_created = 0

\* ------------------------------------------------------------------------
\* generate_bundle_cached: the adapt path
\* ------------------------------------------------------------------------
\* the one generate_with_openai call of an adapt request: adapt mode, the
\* neighbour's stored bundle as draft, the neighbour similarity as context
AdaptCall(p) ==
    /\ gen_calls[p] = 1
    /\ gen_args[p] = [mode |-> "semantic_adapt",
                      draft |-> nbr_before[p].art.content_json,
                      similarity |-> similarity[p]]

\* artifact a holds the adapted bundle of p under p's fingerprint, with the
\* adapt metadata, and is not the neighbour's artifact
AdaptedArtifact(p, a) ==
    /\ a.content_json = ModelDump(bundle[p])
    /\ \E r \in ReqsByHash(h[p]) : a.requirement_id = r.id
    /\ a.output_type = "bundle"
    /\ a.prompt_version = "v1_adapt"
    /\ a.metadata_json = [cache_hit |-> "semantic_adapt",
                          similarity |-> similarity[p],
                          source_requirement_id |-> nbr_before[p].rq.id,
                          policy_version |-> POLICY_VERSION]
    /\ a.id # nbr_before[p].art.id
    /\ a.requirement_id # nbr_before[p].rq.id

MaxStories == 2

RECURSIVE Factorial(_)
Factorial(n) == IF n <= 1 THEN 1 ELSE n * Factorial(n - 1)

\* the score 1.0: scores are integers in units small enough for the mean
\* of six sub-scores, the three penalty weights and the mean over the
\* stories to be exact
ScoreUnit == 60 * Factorial(MaxStories)

\* what score_story_invest looks at in a story
StoryFlags ==
    [depends : BOOLEAN, implementation : BOOLEAN, no_benefit : BOOLEAN,
     vague : BOOLEAN, has_and : BOOLEAN, untestable : BOOLEAN]

\* a story of the requirement set: its flags, the number of hard violations
\* and the number of ambiguities whose text holds its story_id
StoryInputs == [flags : StoryFlags, hard : {0, 2}, ambiguous : {0, 1}]

\* score_story_invest: the six sub-scores
InvestScores(f) ==
    [I |-> IF f.depends THEN 3 ELSE 5,
     N |-> IF f.implementation THEN 3 ELSE 5,
     V |-> IF f.no_benefit THEN 2 ELSE 5,
     E |-> IF f.vague THEN 3 ELSE 5,
     S |-> IF f.has_and THEN 4 ELSE 5,
     T |-> IF f.untestable THEN 2 ELSE 4]

Count(b) == IF b THEN 1 ELSE 0

\* score_story_invest: len(issues), one issue per lowered sub-score
InvestIssues(f) ==
    Count(f.depends) + Count(f.implementation) + Count(f.no_benefit)
    + Count(f.vague) + Count(f.has_and) + Count(f.untestable)

\* invest_avg = (I + N + V + E + S + T) / 6.0
InvestAvg(sc) == ((sc.I + sc.N + sc.V + sc.E + sc.S + sc.T) * ScoreUnit) \div 6

\* penalty = 0.2 * issues + 0.3 * hard + 0.05 * ambiguous
Penalty(issues, hard, ambiguous) ==
    (ScoreUnit \div 5) * issues + ((3 * ScoreUnit) \div 10) * hard
    + (ScoreUnit \div 20) * ambiguous

Min2(a, b) == IF a <= b THEN a ELSE b

Max2(a, b) == IF a >= b THEN a ELSE b

Clamp_noFloor(x) == Min2(5 * ScoreUnit, x)

\* max(1.0, min(5.0, x))
Clamp(x) == Max2(ScoreUnit, Min2(5 * ScoreUnit, x))

\* overall of one story
Overall(st) ==
    Clamp(InvestAvg(InvestScores(st.flags))
          - Penalty(InvestIssues(st.flags), st.hard, st.ambiguous))

RECURSIVE SumSeq(_)
SumSeq(q) == IF q = << >> THEN 0 ELSE Head(q) + SumSeq(Tail(q))

\* req_avg = sum(overall_scores) / max(1, len(overall_scores))
ReqAvg(q) == SumSeq(q) \div Max2(1, Len(q))

InitQuality ==
    /\ RunQuiet
    /\ CacheQuiet
    /\ RetryQuiet
    /\ FpQuiet
    /\ EngineQuiet
    /\ LookupQuiet
    /\ HistQuiet
    /\ qpc = "stories"
    /\ n_stories \in 0..MaxStories
    /\ story = NoStory
    /\ overall_scores = << >>
    /\ req_avg = 0

\* one pass of `for story in req.stories`
ScoreStory ==
    /\ qpc = "stories"
    /\ Len(overall_scores) < n_stories
    /\ \E st \in StoryInputs :
         /\ story' = st
         /\ overall_scores' = Append(overall_scores, Overall(st))
    /\ UNCHANGED << qpc, n_stories, req_avg >>

\* after the loop: req_avg is computed and returned
ReturnReports ==
    /\ qpc = "stories"
    /\ Len(overall_scores) = n_stories
    /\ req_avg' = ReqAvg(overall_scores)
    /\ qpc' = "returned"
    /\ UNCHANGED << n_stories, story, overall_scores >>

NextQuality ==
    \/ (ScoreStory /\ UNCHANGED << runVars, cacheVars, retryVars, fpVars, engineVars, lookupVars, histVars >>)
    \/ (ReturnReports /\ UNCHANGED << runVars, cacheVars, retryVars, fpVars, engineVars, lookupVars, histVars >>)

SpecQuality == InitQuality /\ [][NextQuality]_vars

\* sixty times the unclamped aggregate of the story scored last: mean of the
\* six sub-scores less 0.2 per INVEST issue, 0.3 per hard violation and 0.05
\* per ambiguity that mention it
Raw60 ==
    LET sc == InvestScores(story.flags) IN
    ScoreUnit * ( 10 * (sc.I + sc.N + sc.V + sc.E + sc.S + sc.T)
                  - 12 * InvestIssues(story.flags)
                  - 18 * story.hard
                  - 3 * story.ambiguous )

\* C21: each per-story aggregate is clamp(1, 5, mean of the six sub-scores
\* - 0.2 * issues - 0.3 * hard violations - 0.05 * ambiguities) and so lies
\* in [1, 5]; the run-level score is the mean of the aggregates, and 0 when
\* there is no story.
C21_AggregateClampedMean ==
    /\ \A i \in DOMAIN overall_scores :
         /\ overall_scores[i] >= ScoreUnit
         /\ overall_scores[i] <= 5 * ScoreUnit
    /\ overall_scores # << >> =>
         LET last == overall_scores[Len(overall_scores)] IN
         /\ Raw60 < 60 * ScoreUnit => last = ScoreUnit
         /\ Raw60 > 300 * ScoreUnit => last = 5 * ScoreUnit
         /\ (Raw60 >= 60 * ScoreUnit /\ Raw60 <= 300 * ScoreUnit) =>
               60 * last = Raw60
    /\ qpc = "returned" =>
         /\ Len(overall_scores) = n_stories
         /\ n_stories = 0 => req_avg = 0
         /\ n_stories > 0 => req_avg * n_stories = SumSeq(overall_scores)

\* C21 witness: two stories, the second clamped to 1.0 from below, the
\* first not clamped; the run-level score lies strictly between them.
C21_Witness ==
    /\ qpc = "returned"
    /\ n_stories = 2
    /\ overall_scores[2] = ScoreUnit
    /\ Raw60 < 60 * ScoreUnit
    /\ overall_scores[1] > ScoreUnit
    /\ req_avg > ScoreUnit
    /\ req_avg < overall_scores[1]

\* ------------------------------------------------------------------------
\* generate_bundle_cached: the miss path
\* ------------------------------------------------------------------------
\* the request of p returned with decision miss
MissReturned(p) == cpc[p] = "done" /\ decision[p] = "miss"

\* the one generate_with_openai call of a miss request: fresh mode, no draft
FreshCall(p) ==
    /\ gen_calls[p] = 1
    /\ gen_args[p].mode = "fresh"
    /\ gen_args[p].draft = None

\* artifact a holds the fresh bundle of p under p's fingerprint with the
\* miss metadata: cache_hit = miss and neither similarity nor source id
MissArtifact(p, a) ==
    /\ a.content_json = ModelDump(bundle[p])
    /\ \E r \in ReqsByHash(h[p]) : a.requirement_id = r.id
    /\ a.output_type = "bundle"
    /\ a.prompt_version = "v1"
    /\ a.metadata_json = [cache_hit |-> "miss",
                          policy_version |-> POLICY_VERSION]

MaxRows == 2

\* the embedding of the query: none of the stored ones
QueryEmbedding == MaxRows + 1

\* cosine distances of the stored embeddings to the query
LookupDists == {80000, 250000, 250001, 400000}

\* min_similarity: none, the default of the function, ADAPT_THRESHOLD
LookupMins == {0, 600000, ADAPT_THRESHOLD}

\* what the store holds for row i: nothing, or a requirement row with or
\* without embedding (the column is nullable) and with no artifact, a bundle
\* artifact or an artifact of another output_type
RowKinds ==
    { k \in [present : BOOLEAN, emb : BOOLEAN,
             art : {"none", "bundle", "stories"}] :
        ~ k.present => (~ k.emb /\ k.art = "none") }

SeedRequirements(k) ==
    { [id |-> i, text_hash |-> i, embedding |-> IF k[i].emb THEN i ELSE 0] :
        i \in { j \in 1..MaxRows : k[j].present } }

SeedArtifacts(k) ==
    { [id |-> i, requirement_id |-> i, output_type |-> k[i].art,
       content_json |-> ModelDump([by |-> 0, n |-> i]),
       prompt_version |-> "v1",
       metadata_json |-> [cache_hit |-> "miss",
                          policy_version |-> POLICY_VERSION]] :
        i \in { j \in 1..MaxRows : k[j].present /\ k[j].art # "none" } }

\* get_cached_by_similarity(embedding, min_similarity): the values it may
\* return (the first row of ORDER BY dist LIMIT 1; None when there is no row
\* or the row's similarity is below min_similarity)
GetCachedBySimilarity(e, m) ==
    IF Closest(e) = {} THEN {None}
    ELSE { IF BelowMin(SimilarityOf(j, e), m) THEN None
           ELSE [bundle |-> j.art.content_json, sim |-> SimilarityOf(j, e),
                 source |-> j.rq.id] : j \in Closest(e) }

InitLookup ==
    /\ RunQuiet
    /\ RetryQuiet
    /\ FpQuiet
    /\ EngineQuiet
    /\ QualityQuiet
    /\ HistQuiet
    /\ \E k \in [1..MaxRows -> RowKinds] :
         /\ requirements = SeedRequirements(k)
         /\ artifacts = SeedArtifacts(k)
    /\ req_seq = MaxRows
    /\ art_seq = MaxRows
    /\ dist \in [{ {i, QueryEmbedding} : i \in 1..MaxRows } -> LookupDists]
    /\ min_sim \in LookupMins
    /\ cpc = [p \in Procs |-> "idle"]
    /\ nreq = [p \in Procs |-> 0]
    /\ h = [p \in Procs |-> 0]
    /\ sim_hit = [p \in Procs |-> None]
    /\ similarity = [p \in Procs |-> -1]
    /\ decision = [p \in Procs |-> "none"]
    /\ bundle = [p \in Procs |-> None]
    /\ gen_calls = [p \in Procs |-> 0]
    /\ gen_args = [p \in Procs |-> None]
    /\ pending = [p \in Procs |-> None]
    /\ error = [p \in Procs |-> "none"]
    /\ hit_at_start = [p \in Procs |-> None]
    /\ nbr_before = [p \in Procs |-> None]
    /\ meta = [p \in Procs |-> None]
    /\ looked = FALSE
    /\ lookup = None

\* one call get_cached_by_similarity(query, min_similarity=min_sim)
SimilarityCall ==
    /\ \E r \in GetCachedBySimilarity(QueryEmbedding, min_sim) : lookup' = r
    /\ looked' = TRUE

NextLookup ==
    SimilarityCall /\ UNCHANGED << runVars, cacheVars, retryVars, fpVars,
                                   engineVars, qualityVars, histVars >>

SpecLookup == InitLookup /\ [][NextLookup]_vars

\* requirement rows with an embedding and an artifact of type bundle
EligibleRows ==
    { r \in requirements :
        /\ r.embedding # 0
        /\ \E a \in artifacts :
             a.requirement_id = r.id /\ a.output_type = "bundle" }

\* cosine distance of a stored row to the query
QueryDist(r) == dist[{r.embedding, QueryEmbedding}]

\* C32: get_cached_by_similarity returns nothing when no requirement row
\* has both an embedding and a bundle artifact, or when the nearest such row
\* has similarity 1 - distance below min_similarity; otherwise it returns a
\* row of least cosine distance among those rows, with similarity
\* 1 - distance, that row's id and that row's bundle.
C32_NearestEligibleRow ==
    looked =>
        IF EligibleRows = {} THEN lookup = None
        ELSE LET nearest == { r \in EligibleRows :
                                \A q \in EligibleRows : QueryDist(r) <= QueryDist(q) }
                 d == QueryDist(CHOOSE r \in nearest : TRUE)
             IN  IF One - d < min_sim THEN lookup = None
                 ELSE IF lookup = None THEN FALSE
                 ELSE /\ lookup.sim = One - d
                      /\ \E r \in nearest :
                           /\ lookup.source = r.id
                           /\ \E a \in artifacts :
                                /\ a.requirement_id = r.id
                                /\ a.output_type = "bundle"
                                /\ a.content_json = lookup.bundle

\* C32 witness: the nearest stored row (similarity 0.92) has an artifact of
\* another type only; the call returns the second row, whose similarity is
\* exactly min_similarity = 0.75.
C32_Witness ==
    /\ looked
    /\ min_sim = ADAPT_THRESHOLD
    /\ Cardinality(requirements) = 2
    /\ \E r \in requirements \ EligibleRows :
         r.embedding # 0 /\ QueryDist(r) = 80000
    /\ IF lookup = None THEN FALSE
       ELSE /\ lookup.sim = ADAPT_THRESHOLD
            /\ \E r \in EligibleRows : lookup.source = r.id

\* ------------------------------------------------------------------------
\* run_agentic: the iteration records
\* ------------------------------------------------------------------------
\* q is p or p with records appended
IsPrefix(p, q) ==
    /\ Len(p) <= Len(q)
    /\ \A i \in DOMAIN p : q[i] = p[i]

\* the iterations of the iteration_result records of an audit trail, in order
RECURSIVE ResultIterations(_)
ResultIterations(log) ==
    IF log = << >> THEN << >>
    ELSE IF Head(log).event = "iteration_result"
         THEN << Head(log).iteration >> \o ResultIterations(Tail(log))
         ELSE ResultIterations(Tail(log))

\* the iteration numbers are 0, 1, 2, ... and the audit trail's
\* iteration_result records carry the same iterations in the same order
RecordsConsecutive ==
    /\ \A i \in DOMAIN iteration_rows : iteration_rows[i].iteration = i - 1
    /\ ResultIterations(audit) = [i \in DOMAIN iteration_rows |-> i - 1]
    /\ scores_csv # << >> => scores_csv = iteration_rows

\* C33: the iteration records are an append-only sequence with one record
\* per scored iteration, numbered 0, 1, 2, ... without gap or repeat; a step
\* only appends to the rows and to the audit trail, and the audit trail's
\* iteration_result records and the rows of the score table carry the same
\* iterations in the same order.
C33_RecordsAppendOnly ==
    [][ /\ IsPrefix(iteration_rows, iteration_rows')
        /\ Len(iteration_rows') <= Len(iteration_rows) + 1
        /\ IsPrefix(audit, audit')
        /\ Len(iteration_rows') = Len(iteration_rows) + 1 =>
              /\ req' = Len(iteration_rows)
              /\ iteration_rows'[Len(iteration_rows')].avg_score = avg_score'
        /\ RecordsConsecutive' ]_vars

\* C33 witness: a run returned after three scored iterations and a critique
\* that stopped it; table and trail hold iterations 0, 1, 2.
C33_Witness ==
    /\ pc = "returned"
    /\ exit = "critic_stop"
    /\ Len(iteration_rows) = 3
    /\ scores_csv = iteration_rows
    /\ ResultIterations(audit) = << 0, 1, 2 >>
    /\ Len(audit) = 6

\* C34: in every iteration record hard_ok is true exactly when gherkin_ok
\* and trace_ok are both true (and the run's hard_ok is that of the last
\* record).
C34_HardOkIsConjunction ==
    /\ \A i \in DOMAIN iteration_rows :
         iteration_rows[i].hard_ok <=>
             (iteration_rows[i].gherkin_ok /\ iteration_rows[i].trace_ok)
    /\ iteration_rows # << >> =>
         hard_ok = iteration_rows[Len(iteration_rows)].hard_ok

\* C34 witness: three records, one failing Gherkin validity only, one
\* failing traceability only, one meeting both.
C34_Witness ==
    /\ Len(iteration_rows) = 3
    /\ ~ iteration_rows[1].gherkin_ok /\ iteration_rows[1].trace_ok
    /\ iteration_rows[2].gherkin_ok /\ ~ iteration_rows[2].trace_ok
    /\ iteration_rows[3].hard_ok

\* ------------------------------------------------------------------------
\* generate_bundle_cached: the Cache Decision
\* ------------------------------------------------------------------------
\* the bundle generated by the current request of p
OwnBundle(p) == ModelDump([by |-> p, n |-> nreq[p]])

\* the decision a request returned is of one of the four kinds, carries the
\* policy version, and has similarity and source_requirement_id exactly when
\* it is semantic; it is stored nowhere but in the metadata of the artifact
\* the request wrote, and a hash or semantic_reuse request wrote none
DecisionShape ==
    /\ \A p \in Procs :
         /\ cpc[p] = "done" <=> meta[p] # None
         /\ IF meta[p] = None THEN TRUE
            ELSE /\ meta[p].cache_hit \in CacheKinds
                 /\ meta[p].cache_hit = decision[p]
                 /\ meta[p].policy_version = POLICY_VERSION
                 /\ "similarity" \in DOMAIN meta[p] <=>
                       meta[p].cache_hit \in {"semantic_reuse", "semantic_adapt"}
                 /\ "source_requirement_id" \in DOMAIN meta[p] <=>
                       meta[p].cache_hit \in {"semantic_reuse", "semantic_adapt"}
                 /\ meta[p].cache_hit \in {"semantic_reuse", "semantic_adapt"} =>
                       /\ meta[p].similarity = similarity[p]
                       /\ meta[p].source_requirement_id = nbr_before[p].rq.id
                 /\ \A a \in artifacts :
                       a.content_json = OwnBundle(p) =>
                           /\ meta[p].cache_hit \in {"miss", "semantic_adapt"}
                           /\ a.metadata_json = meta[p]
    /\ \A a \in artifacts :
         a.metadata_json.cache_hit \in {"miss", "semantic_adapt"}

\* C35: a request returns exactly one Cache Decision, of kind hash,
\* semantic_reuse, semantic_adapt or miss, carrying the policy version, with
\* similarity and source_requirement_id present exactly for the semantic
\* kinds; the decision is set once, at the return, and is stored only in the
\* metadata of the artifact the request wrote (none for hash and
\* semantic_reuse).
C35_OneDecisionPerRequest ==
    [][ /\ \A p \in Procs :
            meta'[p] # meta[p] =>
                \/ meta[p] = None /\ cpc[p] # "done" /\ cpc'[p] = "done"
                \/ meta'[p] = None /\ cpc[p] = "done" /\ cpc'[p] = "hash_lookup"
        /\ DecisionShape' ]_vars

\* C35 witness: one request returned semantic_adapt at similarity 0.80 and
\* its artifact carries that decision; the other client then had a hash hit
\* on it, whose decision has no similarity and is stored nowhere.
C35_Witness ==
    \E p \in Procs : \E q \in Procs \ {p} :
        /\ IF meta[p] = None THEN FALSE
           ELSE /\ meta[p].cache_hit = "semantic_adapt"
                /\ meta[p].similarity = 800000
                /\ \E a \in artifacts :
                     a.content_json = OwnBundle(p) /\ a.metadata_json = meta[p]
        /\ IF meta[q] = None THEN FALSE
           ELSE /\ meta[q] = [cache_hit |-> "hash",
                              policy_version |-> POLICY_VERSION]
                /\ h[q] = h[p]

\* ------------------------------------------------------------------------
\* run_agentic: cancellation and timeouts
\* ------------------------------------------------------------------------
\* run_agentic takes no timeout and no cancellation token: a timeout or a
\* cancellation reaches it as an exception raised by the external call in
\* progress, either a subclass of Exception (TimeoutError, the client's
\* APITimeoutError) or a BaseException (KeyboardInterrupt, CancelledError)
Cancellations == {"TimeoutError", "KeyboardInterrupt"}

\* `except Exception` catches it
IsException(c) == c = "TimeoutError"

\* the exception leaves run_agentic: nothing is logged, written or returned
Propagate(c) ==
    /\ audit' = audit
    /\ scores_csv' = scores_csv
    /\ ret' = ret
    /\ exit' = c
    /\ pc' = "raised"

\* cancelled inside generate_bundle_cached (generative call, embedding call,
\* store read or write): the call is outside the try
CancelGenerate ==
    /\ pc = "generate"
    /\ \E c \in Cancellations :
         /\ cancelled' = c
         /\ exit' = c
    /\ pc' = "raised"
    /\ UNCHANGED << critic_args, refine_args, config_ok, run_folder, max_iters,
                    target_score, force_min_iters,
                    cache_meta, it, req, hard_ok, avg_score, best_req,
                    best_score, crit, iteration_rows, audit, scores_csv, ret,
                    critic_calls, refine_calls >>

\* cancelled inside critic_fn: the call is the first statement of the try
CancelCritique ==
    /\ pc = "critique"
    /\ critic_calls' = critic_calls + 1
    /\ critic_args' = Append(critic_args, ReqPassed(best_req, req))
    /\ \E c \in Cancellations :
         /\ cancelled' = c
         /\ IF IsException(c) THEN Except(req) ELSE Propagate(c)
    /\ UNCHANGED << refine_args, config_ok, run_folder, max_iters, target_score,
                    force_min_iters,
                    cache_meta, it, req, hard_ok, avg_score, best_req,
                    best_score, crit, iteration_rows, refine_calls >>

\* cancelled inside refiner_fn
CancelRefine ==
    /\ pc = "refine"
    /\ refine_calls' = refine_calls + 1
    /\ refine_args' = Append(refine_args, ReqPassed(best_req, req))
    /\ \E c \in Cancellations :
         /\ cancelled' = c
         /\ IF IsException(c) THEN Except(req) ELSE Propagate(c)
    /\ UNCHANGED << critic_args, config_ok, run_folder, max_iters, target_score,
                    force_min_iters,
                    cache_meta, it, req, hard_ok, avg_score, best_req,
                    best_score, crit, iteration_rows, critic_calls >>

NextCancel ==
    \/ (ConfigCheck /\ UNCHANGED << cacheVars, pureVars >>)
    \/ (Generate /\ UNCHANGED << cacheVars, pureVars >>)
    \/ (GenerateRaise /\ UNCHANGED << cacheVars, pureVars >>)
    \/ (Score0 /\ UNCHANGED << cacheVars, pureVars >>)
    \/ (Critique /\ UNCHANGED << cacheVars, pureVars >>)
    \/ (CritiqueRaise /\ UNCHANGED << cacheVars, pureVars >>)
    \/ (Refine /\ UNCHANGED << cacheVars, pureVars >>)
    \/ (RefineRaise /\ UNCHANGED << cacheVars, pureVars >>)
    \/ (Score /\ UNCHANGED << cacheVars, pureVars >>)
    \/ (ScoreRaise /\ UNCHANGED << cacheVars, pureVars >>)
    \/ (CancelGenerate /\ UNCHANGED << cacheVars, pureVars >>)
    \/ (CancelCritique /\ UNCHANGED << cacheVars, pureVars >>)
    \/ (CancelRefine /\ UNCHANGED << cacheVars, pureVars >>)

SpecCancel == Init /\ [][NextCancel]_vars

\* C36: a cancellation or timeout that fired at an external call aborts the
\* run with that error; the run returns no requirement set.
C36_CancellationAborts ==
    cancelled # "none" =>
        /\ pc = "raised"
        /\ exit = cancelled
        /\ ret = NoReq

\* a cancellation that fired in the loop as a subclass of Exception ended
\* the run with a normal return of the best-so-far set
C36_TimeoutReturnsBest ==
    /\ cancelled = "TimeoutError"
    /\ pc = "returned"
    /\ exit = "exception"
    /\ ret = best_req
    /\ ret # NoReq

\* ------------------------------------------------------------------------
\* generate_bundle_cached: requests issued one after another, no failures
\* ------------------------------------------------------------------------
\* a request begins only when no other request is in progress
SeqStart(p) ==
    /\ \A q \in Procs : cpc[q] \in {"idle", "done"}
    /\ Start(p)

\* the request of p returned in this step: its fingerprint and decision are
\* appended to the history
Returned(p) ==
    history' = IF cpc'[p] = "done" /\ cpc[p] # "done"
               THEN Append(history, [fp |-> h[p], kind |-> decision'[p]])
               ELSE history

\* generate_with_openai returns; the call is counted under the fingerprint
SeqGenerate(p) ==
    /\ GenerateBundle(p)
    /\ gen_total' = [gen_total EXCEPT ![h[p]] = @ + 1]
    /\ UNCHANGED history

NextSeq ==
    \/ \E p \in Procs : SeqStart(p) /\ UNCHANGED << runVars, pureVars >>
    \/ \E p \in Procs : HashLookup(p) /\ Returned(p) /\ UNCHANGED gen_total
                        /\ UNCHANGED << runVars, retryVars, fpVars, engineVars,
                                        qualityVars, lookupVars >>
    \/ \E p \in Procs : SimLookup(p) /\ Returned(p) /\ UNCHANGED gen_total
                        /\ UNCHANGED << runVars, retryVars, fpVars, engineVars,
                                        qualityVars, lookupVars >>
    \/ \E p \in Procs : SeqGenerate(p)
                        /\ UNCHANGED << runVars, retryVars, fpVars, engineVars,
                                        qualityVars, lookupVars >>
    \/ \E p \in Procs : StoreSelect(p) /\ Returned(p) /\ UNCHANGED gen_total
                        /\ UNCHANGED << runVars, retryVars, fpVars, engineVars,
                                        qualityVars, lookupVars >>
    \/ \E p \in Procs : StoreFlush(p) /\ UNCHANGED << runVars, pureVars >>
    \/ \E p \in Procs : StoreCommit(p) /\ Returned(p) /\ UNCHANGED gen_total
                        /\ UNCHANGED << runVars, retryVars, fpVars, engineVars,
                                        qualityVars, lookupVars >>

SpecSeq == InitCache /\ [][NextSeq]_vars

\* the decision kinds that involve a generative call
Generative == {"miss", "semantic_adapt"}

\* C37: over requests issued one after another without failure the
\* generator is called at most once per fingerprint: after a miss or a
\* semantic_adapt for F every later request for F is a hash hit, and after a
\* semantic_reuse for F no later request for F is a miss or an adapt.
C37_OneGenerationPerFingerprint ==
    /\ \A e \in Epics :
         /\ gen_total[e] <= 1
         /\ gen_total[e] >=
              Cardinality({ i \in DOMAIN history :
                              history[i].fp = e /\ history[i].kind \in Generative })
    /\ \A i \in DOMAIN history : \A j \in DOMAIN history :
         (i < j /\ history[i].fp = history[j].fp) =>
             /\ history[i].kind \in Generative => history[j].kind = "hash"
             /\ history[i].kind = "semantic_reuse" =>
                   history[j].kind \notin Generative
    /\ \A p \in Procs : error[p] = "none"

\* C37 witness: fingerprint 1 missed and was generated, fingerprint 2 was
\* served twice by semantic_reuse, then fingerprint 1 was a hash hit: one
\* generative call in four requests.
C37_Witness ==
    /\ Len(history) = 4
    /\ history[1] = [fp |-> 1, kind |-> "miss"]
    /\ history[2] = [fp |-> 2, kind |-> "semantic_reuse"]
    /\ history[3] = [fp |-> 2, kind |-> "semantic_reuse"]
    /\ history[4] = [fp |-> 1, kind |-> "hash"]
    /\ gen_total = [e \in Epics |-> IF e = 1 THEN 1 ELSE 0]

\* ------------------------------------------------------------------------
\* run_agentic: what critique and refine are given
\* ------------------------------------------------------------------------
\* C38: the k-th critic_fn call and the k-th refiner_fn call, which are
\* those of pass k, are given the requirement set of iteration k - 1, the
\* one scored last, whatever the Best-Result Pointer holds.
C38_RefinesMostRecent ==
    /\ Len(critic_args) = critic_calls
    /\ Len(refine_args) = refine_calls
    /\ \A k \in DOMAIN critic_args :
         /\ critic_args[k] = k - 1
         /\ k <= Len(iteration_rows)
    /\ \A k \in DOMAIN refine_args :
         /\ refine_args[k] = k - 1
         /\ k <= Len(iteration_rows)
    /\ pc \in {"critique", "refine"} => req = it - 1

\* C38 witness: iteration 1 failed the hard constraints and the pointer
\* stayed on iteration 0; critique and refine of pass 2 were given
\* iteration 1.
C38_Witness ==
    /\ critic_args = << 0, 1 >>
    /\ refine_args = << 0, 1 >>
    /\ best_req = 0
    /\ Len(iteration_rows) >= 2
    /\ iteration_rows[1].hard_ok
    /\ ~ iteration_rows[2].hard_ok

\* ------------------------------------------------------------------------
\* generate_bundle_cached: a failing generator
\* ------------------------------------------------------------------------
\* the generator failed in the current request of p
GeneratorFailed(p) == cpc[p] = "raised" /\ error[p] = "ValidationError"

\* C39: when generate_with_openai raises on the miss path or on the adapt
\* path, the step leaves the store as it is, and the failed request has
\* written no Requirement Record and no Artifact, committed or pending.
C39_FailedGenerationWritesNothing ==
    [][ \A p \in Procs :
          /\ (cpc[p] = "generate" /\ cpc'[p] = "raised") =>
                /\ requirements' = requirements
                /\ artifacts' = artifacts
                /\ req_seq' = req_seq
                /\ art_seq' = art_seq
                /\ pending' = pending
                /\ decision[p] \in {"miss", "semantic_adapt"}
          /\ GeneratorFailed(p)' =>
                /\ bundle'[p] = None
                /\ pending'[p] = None
                /\ meta'[p] = None
                /\ \A a \in artifacts' : a.content_json # OwnBundle(p)'
                /\ hit_at_start'[p] = None ]_vars

\* C39 witness: the generator failed on the adapt path; no row carries the
\* request's fingerprint and the neighbour's rows are the only ones.
C39_Witness ==
    \E p \in Procs :
        /\ GeneratorFailed(p)
        /\ decision[p] = "semantic_adapt"
        /\ gen_calls[p] = 1
        /\ ReqsByHash(h[p]) = {}
        /\ Cardinality(requirements) = 1
        /\ Cardinality(artifacts) = 1

\* ------------------------------------------------------------------------
\* run_agentic: the Best-Result Pointer
\* ------------------------------------------------------------------------
\* the pointer names a recorded iteration and holds its score
PointerRecorded ==
    iteration_rows # << >> =>
        /\ best_req \in 0..(Len(iteration_rows) - 1)
        /\ iteration_rows[best_req + 1].iteration = best_req
        /\ iteration_rows[best_req + 1].avg_score = best_score

\* C40: best_score never decreases, and from iteration 0 on best_req is the
\* requirement set of an iteration already scored and recorded, with
\* best_score equal to that iteration's avg_score.
C40_BestMonotoneRecorded ==
    [][ /\ best_score' >= best_score
        /\ PointerRecorded' ]_vars

\* C40 witness: three scored iterations; the pointer is on iteration 1,
\* which scored higher than iteration 0, and iteration 2 scored lower.
C40_Witness ==
    /\ Len(iteration_rows) = 3
    /\ best_req = 1
    /\ iteration_rows[1].avg_score < best_score
    /\ iteration_rows[3].avg_score < best_score
    /\ iteration_rows[3].hard_ok

====
